---- MODULE Spec2Model ----
(***************************************************************************)
(* A model of the antithrow ESLint plugin: the type classifier             *)
(* (rules/utils/result-type.ts), the no-unused-result rule and the         *)
(* no-unsafe-unwrap rule, together with the part of the ESLint host they   *)
(* talk to (parser, type checker snapshot, fixer).                         *)
(*                                                                         *)
(* Source text is a sequence of lexemes (one-token strings, " " being     *)
(* whitespace); an AST node is a record shaped like its ESTree node, with  *)
(* the range <<first, last>> of its lexemes in the text; a type is a record *)
(* shaped like a ts.Type (flags, symbol, union members).                   *)
(***************************************************************************)
EXTENDS Integers, Sequences, FiniteSets, TLC

VARIABLES
    text,       \* the source text of the file being linted
    ast,        \* its parse: a Program node, or SyntaxError
    todo,       \* paths of the nodes the traversal has still to visit
    reports,    \* the diagnostics reported so far in this lint pass
    applied,    \* the last edit applied to the text, and the text before it
    walk,       \* the calls of checkExpression and collectResultTypes in progress
    tsType,     \* the ts.Type handed to the classifier
    variant,    \* the last answer of getResultVariant
    isResult,   \* the last answer of isResultType
    generator,  \* the generator function handed to chain
    iter,       \* the generator object chain works on
    calls,      \* the methods chain has called on it, in order
    iterResult, \* the iterator result of the call of next, once it is there
    returned,   \* what chain has returned
    pc          \* where the call of chain stands

vars ==
    <<text, ast, todo, reports, applied, walk, tsType, variant, isResult,
      generator, iter, calls, iterResult, returned, pc>>

lintVars == <<text, ast, todo, reports, applied, walk>>

typeVars == <<tsType, variant, isResult>>

chainVars == <<generator, iter, calls, iterResult, returned, pc>>

----------------------------------------------------------------------------
(* Bounds of the model.                                                    *)

\* the most members a union type has
MaxUnion == 2

\* the most operators nested around an operand of a generated statement
MaxDepth == 1

\* the most yield* statements in the body of a generator
MaxYields == 3

----------------------------------------------------------------------------
(* Strings the code inspects character by character are sequences of       *)
(* one-character strings.                                                  *)

\* String.prototype.includes
Includes(s, t) ==
    \E i \in 1..(Len(s) - Len(t) + 1) : SubSeq(s, i, i + Len(t) - 1) = t

\* the literal "antithrow" of isAntithrowResultTypeSymbol
AntithrowStr == <<"a","n","t","i","t","h","r","o","w">>

\* node_modules/antithrow/dist/index.d.ts: the package's declarations
AntithrowFile ==
    <<"n","o","d","e","_","m","o","d","u","l","e","s","/">> \o AntithrowStr \o
    <<"/","d","i","s","t","/","i","n","d","e","x",".","d",".","t","s">>

\* src/types.ts: a file of the linted project
UserFile == <<"s","r","c","/","t","y","p","e","s",".","t","s">>

\* antithrow-demo/ok.ts: a file of a linted project whose directory name
\* mentions the library
DemoFile ==
    AntithrowStr \o <<"-","d","e","m","o","/","o","k",".","t","s">>

\* the directory a package is installed in
PackageDir == <<"n","o","d","e","_","m","o","d","u","l","e","s","/">> \o AntithrowStr \o <<"/">>

----------------------------------------------------------------------------
(* Types of the type-checker snapshot.                                     *)

\* a ts.Symbol: its name and the source files of its declarations
Symbol(name, declarations) == [name |-> name, declarations |-> declarations]

\* a non-union ts.Type; symbol is <<>> when getSymbol() is undefined
Atom(flags, symbol) == [flags |-> flags, symbol |-> symbol, types |-> <<>>]

\* a ts.UnionType of the given members
Union(types) == [flags |-> {"Union"}, symbol |-> <<>>, types |-> types]

isUnion(t) == "Union" \in t.flags

AnyT == Atom({"Any"}, <<>>)
UnknownT == Atom({"Unknown"}, <<>>)
NeverT == Atom({"Never"}, <<>>)
NullT == Atom({"Null"}, <<>>)
UndefinedT == Atom({"Undefined"}, <<>>)
VoidT == Atom({"Void"}, <<>>)
NumberT == Atom({"Number"}, <<>>)
BooleanT == Atom({"Boolean"}, <<>>)

\* a class or interface type declared in the given files
ObjectT(name, files) == Atom({"Object"}, <<Symbol(name, files)>>)

\* an object-literal or function type: its symbol is anonymous
AnonT == Atom({"Object"}, <<Symbol("__type", <<UserFile>>)>>)

\* the three classes of the antithrow package
OkT == ObjectT("Ok", <<AntithrowFile>>)
ErrT == ObjectT("Err", <<AntithrowFile>>)
ResultAsyncT == ObjectT("ResultAsync", <<AntithrowFile>>)

\* Result<T, E> = Ok<T, E> | Err<T, E>
ResultT == Union(<<OkT, ErrT>>)

\* type Box = { unwrap(): number }
BoxT == ObjectT("Box", <<UserFile>>)

\* the non-union types of the snapshot
AtomTypes ==
    { AnyT, UnknownT, NeverT, NullT, UndefinedT, VoidT, NumberT, AnonT,
      OkT, ErrT, ResultAsyncT, BoxT,
      \* user classes that share a name with the library's
      ObjectT("Ok", <<UserFile>>), ObjectT("Err", <<UserFile>>),
      ObjectT("ResultAsync", <<UserFile>>),
      \* a user class Ok in a project directory named after the library
      ObjectT("Ok", <<DemoFile>>),
      \* an interface merged across a user file and the package
      ObjectT("Ok", <<UserFile, AntithrowFile>>),
      \* a symbol without declarations
      ObjectT("Err", <<>>),
      \* another export of the package
      ObjectT("ResultMethods", <<AntithrowFile>>),
      \* an object type without a symbol
      Atom({"Object"}, <<>>) }

\* tuples of 2..n members
RECURSIVE Tuples(_, _)
Tuples(S, n) ==
    IF n = 0 THEN {<<>>}
    ELSE {<<x>> \o t : x \in S, t \in Tuples(S, n - 1)}

\* the types of the snapshot: atoms and flat unions (the checker flattens
\* unions), plus one union nested by hand
Types ==
    AtomTypes
    \cup UNION { {Union(m) : m \in Tuples(AtomTypes, n)} : n \in 2..MaxUnion }
    \cup { Union(<<Union(<<OkT, UndefinedT>>), OkT>>),
           Union(<<Union(<<OkT, ErrT>>), ResultAsyncT>>),
           Union(<<OkT, Union(<<BoxT, NumberT>>)>>) }

----------------------------------------------------------------------------
(* rules/utils/result-type.ts                                              *)

\* RESULT_TYPE_NAMES with the async wrapper forgotten
RESULT_TYPE_NAMES_WithoutAsync == {"Ok", "Err"}

RESULT_TYPE_NAMES == {"Ok", "Err", "ResultAsync"}
FIXABLE_OK_TYPE_NAMES == {"Ok"}
FIXABLE_ERR_TYPE_NAMES == {"Err"}

\* NULLISH_TYPE_FLAGS with ts.TypeFlags.Void forgotten
NULLISH_TYPE_FLAGS_WithoutVoid == {"Null", "Undefined"}

NULLISH_TYPE_FLAGS == {"Null", "Undefined", "Void"}

ResultVariant == [NONE |-> "none", OK |-> "ok", ERR |-> "err", MIXED |-> "mixed"]

isAntithrowResultTypeSymbol(symbol) ==
    IF symbol.name \notin RESULT_TYPE_NAMES THEN FALSE
    ELSE \E i \in 1..Len(symbol.declarations) :
            Includes(symbol.declarations[i], AntithrowStr)

\* the empty ResultTypeCollection of getResultVariant
EmptyCollection == [hasNonResultMembers |-> FALSE, names |-> {}]

\* one collection object kept and used by every call of getResultVariant
NewCollection_Shared(previous) == previous

\* the collection object a call of getResultVariant works on: a new, empty
\* one, whatever the one of the call before holds
NewCollection(previous) == EmptyCollection

\* collectResultTypes returning from inside the loop over the members of a
\* union: only the first member is looked at
RECURSIVE collectResultTypes_ReturnInLoop(_, _)
collectResultTypes_ReturnInLoop(t, collection) ==
    IF isUnion(t) THEN
        IF t.types = <<>> THEN collection
        ELSE collectResultTypes_ReturnInLoop(Head(t.types), collection)
    ELSE IF t.flags \cap ({"Any", "Unknown", "Never"} \cup NULLISH_TYPE_FLAGS) # {} THEN
        collection
    ELSE IF t.symbol = <<>> \/ ~isAntithrowResultTypeSymbol(t.symbol[1]) THEN
        [collection EXCEPT !.hasNonResultMembers = TRUE]
    ELSE
        [collection EXCEPT !.names = @ \cup {t.symbol[1].name}]

RECURSIVE collectResultTypes(_, _)
collectResultTypes(t, collection) ==
    IF isUnion(t) THEN
        \* for (const member of type.types): fold left to right
        IF t.types = <<>> THEN collection
        ELSE LET first == collectResultTypes(Head(t.types), collection)
             IN  collectResultTypes(Union(Tail(t.types)), first)
    ELSE IF t.flags \cap ({"Any", "Unknown", "Never"} \cup NULLISH_TYPE_FLAGS) # {} THEN
        collection
    ELSE IF t.symbol = <<>> \/ ~isAntithrowResultTypeSymbol(t.symbol[1]) THEN
        [collection EXCEPT !.hasNonResultMembers = TRUE]
    ELSE
        [collection EXCEPT !.names = @ \cup {t.symbol[1].name}]

\* getResultVariant with the test of hasNonResultMembers left out
getResultVariant_IgnoringOtherMembers(t) ==
    LET collection == collectResultTypes(t, EmptyCollection)
        names == collection.names
    IN  IF names = {} THEN ResultVariant.NONE
        ELSE IF "ResultAsync" \in names THEN ResultVariant.MIXED
        ELSE IF \A name \in names : name \in FIXABLE_OK_TYPE_NAMES THEN ResultVariant.OK
        ELSE IF \A name \in names : name \in FIXABLE_ERR_TYPE_NAMES THEN ResultVariant.ERR
        ELSE ResultVariant.MIXED

\* the part of getResultVariant after the collection is filled
resultVariantOf(collection) ==
    LET names == collection.names
    IN  IF names = {} THEN ResultVariant.NONE
        ELSE IF collection.hasNonResultMembers THEN ResultVariant.MIXED
        ELSE IF "ResultAsync" \in names THEN ResultVariant.MIXED
        ELSE IF \A name \in names : name \in FIXABLE_OK_TYPE_NAMES THEN ResultVariant.OK
        ELSE IF \A name \in names : name \in FIXABLE_ERR_TYPE_NAMES THEN ResultVariant.ERR
        ELSE ResultVariant.MIXED

getResultVariant(t) == resultVariantOf(collectResultTypes(t, EmptyCollection))

\* isResultType answering true only for the variants OK and ERR
isResultType_OnlyExact(t) ==
    getResultVariant(t) \in {ResultVariant.OK, ResultVariant.ERR}

isResultType(t) == getResultVariant(t) # ResultVariant.NONE

----------------------------------------------------------------------------
(* Lexemes.  A source text is a sequence of lexemes; " " is whitespace.   *)
(* TLA+ strings cannot hold a backquote, so a template literal is written  *)
(* between two carets.                                                     *)

\* property names that occur in the linted sources
PropertyNames ==
    {"unwrap", "unwrapErr", "expect", "expectErr", "unwrapOr", "map", "value", "error"}

\* "name": a string literal
Quote(m) == "\"" \o m \o "\""

\* `name`: a template literal without interpolation
Template(m) == "^" \o m \o "^"

\* `${method}`: a template literal with one interpolation
InterpolatedTemplate == "^${method}^"

\* identifiers written with a unicode escape, and the names they denote
EscapedIdentifiers ==
    ("unw\\u0072ap" :> "unwrap") @@ ("unwrap\\u0045rr" :> "unwrapErr")

Keywords ==
    {"void", "typeof", "delete", "await", "yield", "as", "satisfies",
     "const", "function", "for", "of"}

Punctuators ==
    {"(", ")", "[", "]", "{", "}", ".", "?.", ",", ";", ":", "?", "=", "=>",
     "!", "-", "+", "~", "&&", "||", "??", " ", "<eof>"}

NumericLiterals == {"1", "2"}

IsStringLiteral(l) == \E m \in PropertyNames : Quote(m) = l
StringValue(l) == CHOOSE m \in PropertyNames : Quote(m) = l

IsTemplate(l) == \E m \in PropertyNames : Template(m) = l
TemplateCooked(l) == CHOOSE m \in PropertyNames : Template(m) = l

IsIdentifier(l) ==
    /\ l \notin Keywords \cup Punctuators \cup NumericLiterals \cup {InterpolatedTemplate}
    /\ ~IsStringLiteral(l)
    /\ ~IsTemplate(l)

\* the name an identifier lexeme denotes (escapes decoded)
IdentifierName(l) ==
    IF l \in DOMAIN EscapedIdentifiers THEN EscapedIdentifiers[l] ELSE l

\* the significant lexemes of a text with their positions (whitespace skipped)
RECURSIVE Lex(_, _)
Lex(s, i) ==
    IF i > Len(s) THEN <<>>
    ELSE IF s[i] = " " THEN Lex(s, i + 1)
    ELSE <<[lex |-> s[i], pos |-> i]>> \o Lex(s, i + 1)

Tok(ts, k) == IF k <= Len(ts) THEN ts[k].lex ELSE "<eof>"

\* the range of the node spanning lexemes k1 .. k2-1: first and last offset
Range(ts, k1, k2) == <<ts[k1].pos, ts[k2 - 1].pos>>

----------------------------------------------------------------------------
(* The parser of the host (typescript-estree), for the subset of the       *)
(* language that occurs in the linted sources.  A parse result is          *)
(* [ok, node, next]; nodes are ESTree records with a range.  Parentheses   *)
(* leave no node and are outside the range of the node they enclose.       *)

Fail == [ok |-> FALSE]
Parsed(node, next) == [ok |-> TRUE, node |-> node, next |-> next]

UnaryOperators == {"void", "typeof", "delete", "!", "-", "+", "~"}
LogicalOperators == {"&&", "||", "??"}

\* binding strength of the binary operators; 0 for any other lexeme
BinaryPrecedence(l) ==
    CASE l \in {"??", "||"} -> 1
      [] l = "&&" -> 2
      [] l \in {"as", "satisfies"} -> 3
      [] l = "+" -> 4
      [] OTHER -> 0

\* type annotations of the linted sources and the types they denote
TypeAnnotations ==
    ("Result<number,string>" :> ResultT) @@ ("Ok<number,never>" :> OkT)
    @@ ("Box" :> BoxT) @@ ("number" :> NumberT)

\* what a production takes besides the lexemes and the position
NoArguments == [none |-> TRUE]

\* The productions of the grammar.  Parser(rule, ts, k, x) parses the
\* production named rule from lexeme k of ts; x holds the further
\* arguments of the production.
RECURSIVE Parser(_, _, _, _)
Parser(rule, ts, k, x) ==
    \* Expression: AssignmentExpression (, AssignmentExpression)*
    CASE rule = "ParseExpression" -> (
            LET first == Parser("ParseAssignment", ts, k, NoArguments)
            IN  IF ~first.ok THEN Fail
                ELSE IF Tok(ts, first.next) # "," THEN first
                ELSE Parser("ParseSequenceRest", ts, first.next,
                         [k0 |-> k, exprs |-> <<first.node>>])
        )
      [] rule = "ParseSequenceRest" -> (
        LET k0 == x.k0
            exprs == x.exprs
        IN
            IF Tok(ts, k) # "," THEN
                Parsed([type |-> "SequenceExpression", expressions |-> exprs,
                        range |-> Range(ts, k0, k)], k)
            ELSE LET e == Parser("ParseAssignment", ts, k + 1, NoArguments)
                 IN  IF ~e.ok THEN Fail
                     ELSE Parser("ParseSequenceRest", ts, e.next,
                              [k0 |-> k0, exprs |-> Append(exprs, e.node)])
        )
    \* AssignmentExpression: yield, an arrow function without parameters, or
    \* a conditional, or target = value
      [] rule = "ParseAssignment" -> (
            IF Tok(ts, k) = "yield" THEN
                LET a == Parser("ParseAssignment", ts, k + 1, NoArguments)
                IN  IF ~a.ok THEN Fail
                    ELSE Parsed([type |-> "YieldExpression", argument |-> a.node,
                                 range |-> Range(ts, k, a.next)], a.next)
            ELSE IF <<Tok(ts, k), Tok(ts, k + 1), Tok(ts, k + 2)>> = <<"(", ")", "=>">> THEN
                LET b == Parser("ParseAssignment", ts, k + 3, NoArguments)
                IN  IF ~b.ok THEN Fail
                    ELSE Parsed([type |-> "ArrowFunctionExpression", params |-> <<>>,
                                 body |-> b.node, expression |-> TRUE,
                                 range |-> Range(ts, k, b.next)], b.next)
            ELSE
                LET c == Parser("ParseConditional", ts, k, NoArguments)
                IN  IF ~c.ok THEN Fail
                    ELSE IF Tok(ts, c.next) # "=" THEN c
                    ELSE IF c.node.type \notin {"Identifier", "MemberExpression", "ObjectExpression"}
                         THEN Fail
                    ELSE LET r == Parser("ParseAssignment", ts, c.next + 1, NoArguments)
                             left == IF c.node.type = "ObjectExpression"
                                     THEN [c.node EXCEPT !.type = "ObjectPattern"]
                                     ELSE c.node
                         IN  IF ~r.ok THEN Fail
                             ELSE Parsed([type |-> "AssignmentExpression", operator |-> "=",
                                          left |-> left, right |-> r.node,
                                          range |-> Range(ts, k, r.next)], r.next)
        )
    \* ConditionalExpression: binary (? assignment : assignment)
      [] rule = "ParseConditional" -> (
            LET t == Parser("ParseBinary", ts, k, [minPrec |-> 1])
            IN  IF ~t.ok THEN Fail
                ELSE IF Tok(ts, t.next) # "?" THEN t
                ELSE LET c == Parser("ParseAssignment", ts, t.next + 1, NoArguments)
                     IN  IF ~c.ok \/ Tok(ts, c.next) # ":" THEN Fail
                         ELSE LET a == Parser("ParseAssignment", ts, c.next + 1, NoArguments)
                              IN  IF ~a.ok THEN Fail
                                  ELSE Parsed([type |-> "ConditionalExpression", test |-> t.node,
                                               consequent |-> c.node, alternate |-> a.node,
                                               range |-> Range(ts, k, a.next)], a.next)
        )
    \* binary, logical, as and satisfies expressions by precedence climbing
      [] rule = "ParseBinary" -> (
        LET minPrec == x.minPrec
        IN
            LET l == Parser("ParseUnary", ts, k, NoArguments)
            IN  IF ~l.ok THEN Fail ELSE Parser("ParseBinaryRest", ts, l.next,
                     [k0 |-> k, left |-> l.node, minPrec |-> minPrec])
        )
      [] rule = "ParseBinaryRest" -> (
        LET k0 == x.k0
            left == x.left
            minPrec == x.minPrec
        IN
            LET op == Tok(ts, k)
                prec == BinaryPrecedence(op)
            IN  IF prec = 0 \/ prec < minPrec THEN Parsed(left, k)
                ELSE IF op \in {"as", "satisfies"} THEN
                    IF ~IsIdentifier(Tok(ts, k + 1)) THEN Fail
                    ELSE Parser("ParseBinaryRest", ts, k + 2,
                             [k0 |-> k0,
                              left |-> [type |-> IF op = "as" THEN "TSAsExpression"
                                                 ELSE "TSSatisfiesExpression",
                                        expression |-> left,
                                        typeAnnotation |-> Tok(ts, k + 1),
                                        range |-> Range(ts, k0, k + 2)],
                              minPrec |-> minPrec])
                ELSE LET r == Parser("ParseBinary", ts, k + 1, [minPrec |-> prec + 1])
                     IN  IF ~r.ok THEN Fail
                         ELSE Parser("ParseBinaryRest", ts, r.next,
                                  [k0 |-> k0,
                                   left |-> [type |-> IF op \in LogicalOperators
                                                      THEN "LogicalExpression"
                                                      ELSE "BinaryExpression",
                                             operator |-> op,
                                             left |-> left,
                                             right |-> r.node,
                                             range |-> Range(ts, k0, r.next)],
                                   minPrec |-> minPrec])
        )
    \* UnaryExpression: operator UnaryExpression, await UnaryExpression
      [] rule = "ParseUnary" -> (
            IF Tok(ts, k) \in UnaryOperators \cup {"await"} THEN
                LET a == Parser("ParseUnary", ts, k + 1, NoArguments)
                IN  IF ~a.ok THEN Fail
                    ELSE IF Tok(ts, k) = "await" THEN
                        Parsed([type |-> "AwaitExpression", argument |-> a.node,
                                range |-> Range(ts, k, a.next)], a.next)
                    ELSE
                        Parsed([type |-> "UnaryExpression", operator |-> Tok(ts, k),
                                argument |-> a.node, range |-> Range(ts, k, a.next)], a.next)
            ELSE Parser("ParseLeftHandSide", ts, k, NoArguments)
        )
    \* a primary expression followed by member accesses, calls and non-null
    \* assertions; a chain with an optional link is wrapped in a ChainExpression
      [] rule = "ParseLeftHandSide" -> (
            LET p == Parser("ParsePrimary", ts, k, NoArguments)
            IN  IF ~p.ok THEN Fail ELSE Parser("ParseChainRest", ts, p.next,
                     [k0 |-> k, node |-> p.node, inChain |-> FALSE])
        )
      [] rule = "ParseChainRest" -> (
        LET k0 == x.k0
            node == x.node
            inChain == x.inChain
        IN
            LET t == Tok(ts, k)
                optional == t = "?."
                j == IF optional THEN k + 1 ELSE k
                u == Tok(ts, j)
            IN  IF t = "." \/ (optional /\ u \notin {"[", "("}) THEN
                    \* object.property, object?.property
                    IF ~IsIdentifier(Tok(ts, k + 1)) THEN Fail
                    ELSE Parser("ParseChainRest", ts, k + 2,
                             [k0 |-> k0,
                              node |-> [type |-> "MemberExpression",
                                        object |-> node,
                                        property |-> [type |-> "Identifier",
                                                      name |-> IdentifierName(Tok(ts, k + 1)),
                                                      range |-> Range(ts, k + 1, k + 2)],
                                        computed |-> FALSE,
                                        optional |-> optional,
                                        range |-> Range(ts, k0, k + 2)],
                              inChain |-> inChain \/ optional])
                ELSE IF u = "[" THEN
                    \* object[property], object?.[property]
                    LET e == Parser("ParseExpression", ts, j + 1, NoArguments)
                    IN  IF ~e.ok \/ Tok(ts, e.next) # "]" THEN Fail
                        ELSE Parser("ParseChainRest", ts, e.next + 1,
                                 [k0 |-> k0,
                                  node |-> [type |-> "MemberExpression",
                                            object |-> node,
                                            property |-> e.node,
                                            computed |-> TRUE,
                                            optional |-> optional,
                                            range |-> Range(ts, k0, e.next + 1)],
                                  inChain |-> inChain \/ optional])
                ELSE IF u = "(" THEN
                    \* callee(arguments), callee?.(arguments)
                    LET a == Parser("ParseArguments", ts, j + 1, [args |-> <<>>])
                    IN  IF ~a.ok THEN Fail
                        ELSE Parser("ParseChainRest", ts, a.next,
                                 [k0 |-> k0,
                                  node |-> [type |-> "CallExpression",
                                            callee |-> node,
                                            arguments |-> a.node,
                                            optional |-> optional,
                                            range |-> Range(ts, k0, a.next)],
                                  inChain |-> inChain \/ optional])
                ELSE IF t = "!" THEN
                    Parser("ParseChainRest", ts, k + 1,
                             [k0 |-> k0,
                              node |-> [type |-> "TSNonNullExpression",
                                        expression |-> node,
                                        range |-> Range(ts, k0, k + 1)],
                              inChain |-> inChain])
                ELSE IF inChain THEN
                    Parsed([type |-> "ChainExpression", expression |-> node,
                            range |-> node.range], k)
                ELSE Parsed(node, k)
        )
    \* the arguments of a call, up to and including the closing parenthesis
      [] rule = "ParseArguments" -> (
        LET args == x.args
        IN
            IF Tok(ts, k) = ")" THEN Parsed(args, k + 1)
            ELSE LET a == Parser("ParseAssignment", ts, k, NoArguments)
                 IN  IF ~a.ok THEN Fail
                     ELSE IF Tok(ts, a.next) = "," THEN
                         Parser("ParseArguments", ts, a.next + 1, [args |-> Append(args, a.node)])
                     ELSE IF Tok(ts, a.next) = ")" THEN
                         Parsed(Append(args, a.node), a.next + 1)
                     ELSE Fail
        )
    \* identifiers, literals, template literals, parenthesised expressions
    \* and object literals
      [] rule = "ParsePrimary" -> (
            LET t == Tok(ts, k)
            IN  IF t = "(" THEN
                    LET e == Parser("ParseExpression", ts, k + 1, NoArguments)
                    IN  IF ~e.ok \/ Tok(ts, e.next) # ")" THEN Fail
                        ELSE Parsed(e.node, e.next + 1)
                ELSE IF t = "{" THEN Parser("ParseObject", ts, k, [nodeType |-> "ObjectExpression"])
                ELSE IF t \in NumericLiterals THEN
                    Parsed([type |-> "Literal", value |-> t, valueType |-> "number",
                            range |-> Range(ts, k, k + 1)], k + 1)
                ELSE IF IsStringLiteral(t) THEN
                    Parsed([type |-> "Literal", value |-> StringValue(t), valueType |-> "string",
                            range |-> Range(ts, k, k + 1)], k + 1)
                ELSE IF IsTemplate(t) THEN
                    Parsed([type |-> "TemplateLiteral",
                            quasis |-> <<[cooked |-> TemplateCooked(t)]>>,
                            expressions |-> <<>>,
                            range |-> Range(ts, k, k + 1)], k + 1)
                ELSE IF t = InterpolatedTemplate THEN
                    Parsed([type |-> "TemplateLiteral",
                            quasis |-> <<[cooked |-> ""], [cooked |-> ""]>>,
                            expressions |-> <<[type |-> "Identifier", name |-> "method",
                                               range |-> Range(ts, k, k + 1)]>>,
                            range |-> Range(ts, k, k + 1)], k + 1)
                ELSE IF IsIdentifier(t) THEN
                    Parsed([type |-> "Identifier", name |-> IdentifierName(t),
                            range |-> Range(ts, k, k + 1)], k + 1)
                ELSE Fail
        )
    \* { property, ... }: an object literal or an object pattern
      [] rule = "ParseObject" -> (
        LET nodeType == x.nodeType
        IN
            IF Tok(ts, k) # "{" THEN Fail
            ELSE LET ps == Parser("ParseProperties", ts, k + 1, [props |-> <<>>])
                 IN  IF ~ps.ok THEN Fail
                     ELSE Parsed([type |-> nodeType, properties |-> ps.node,
                                  range |-> Range(ts, k, ps.next)], ps.next)
        )
    \* the properties of an object, up to and including the closing brace
      [] rule = "ParseProperties" -> (
        LET props == x.props
        IN
            IF Tok(ts, k) = "}" THEN Parsed(props, k + 1)
            ELSE LET p == Parser("ParseProperty", ts, k, NoArguments)
                 IN  IF ~p.ok THEN Fail
                     ELSE IF Tok(ts, p.next) = "," THEN
                         Parser("ParseProperties", ts, p.next + 1,
                                  [props |-> Append(props, p.node)])
                     ELSE IF Tok(ts, p.next) = "}" THEN
                         Parsed(Append(props, p.node), p.next + 1)
                     ELSE Fail
        )
    \* key, key: value, "key": value, 1: value, [key]: value
      [] rule = "ParseProperty" -> (
            LET t == Tok(ts, k)
                computed == t = "["
                key == IF computed THEN Parser("ParseAssignment", ts, k + 1, NoArguments)
                       ELSE Parser("ParsePrimary", ts, k, NoArguments)
            IN  IF ~key.ok THEN Fail
                ELSE IF computed /\ Tok(ts, key.next) # "]" THEN Fail
                ELSE IF ~computed /\ key.node.type \notin {"Identifier", "Literal"} THEN Fail
                ELSE LET afterKey == IF computed THEN key.next + 1 ELSE key.next
                     IN  IF Tok(ts, afterKey) = ":" THEN
                             LET v == Parser("ParseAssignment", ts, afterKey + 1, NoArguments)
                             IN  IF ~v.ok THEN Fail
                                 ELSE Parsed([type |-> "Property", key |-> key.node,
                                              value |-> v.node, computed |-> computed,
                                              shorthand |-> FALSE,
                                              range |-> Range(ts, k, v.next)], v.next)
                         ELSE IF ~computed /\ key.node.type = "Identifier" THEN
                             Parsed([type |-> "Property", key |-> key.node,
                                     value |-> key.node, computed |-> FALSE,
                                     shorthand |-> TRUE,
                                     range |-> Range(ts, k, afterKey)], afterKey)
                         ELSE Fail
        )
    \* a statement: a declaration with an initialiser, a function declaration
    \* with one destructured parameter, a for-of loop over a destructuring
    \* declaration, or an expression statement
      [] rule = "ParseStatement" -> (
            LET t == Tok(ts, k)
            IN  IF t = "const" THEN
                    LET id == IF Tok(ts, k + 1) = "{" THEN Parser("ParseObject", ts, k + 1,
                             [nodeType |-> "ObjectPattern"])
                              ELSE Parser("ParsePrimary", ts, k + 1, NoArguments)
                    IN  IF ~id.ok \/ Tok(ts, id.next) # "=" THEN Fail
                        ELSE IF id.node.type \notin {"Identifier", "ObjectPattern"} THEN Fail
                        ELSE LET init == Parser("ParseAssignment", ts, id.next + 1, NoArguments)
                             IN  IF ~init.ok \/ Tok(ts, init.next) # ";" THEN Fail
                                 ELSE Parsed([type |-> "VariableDeclaration", kind |-> "const",
                                              declarations |->
                                                <<[type |-> "VariableDeclarator", id |-> id.node,
                                                   init |-> init.node,
                                                   range |-> Range(ts, k + 1, init.next)]>>,
                                              range |-> Range(ts, k, init.next + 1)],
                                             init.next + 1)
                ELSE IF t = "function" THEN
                    \* function take({ key }: T) {}
                    LET p == Parser("ParseObject", ts, k + 3, [nodeType |-> "ObjectPattern"])
                    IN  IF ~IsIdentifier(Tok(ts, k + 1)) \/ Tok(ts, k + 2) # "(" \/ ~p.ok THEN Fail
                        ELSE IF Tok(ts, p.next) # ":" \/ Tok(ts, p.next + 1) \notin DOMAIN TypeAnnotations
                             THEN Fail
                        ELSE IF <<Tok(ts, p.next + 2), Tok(ts, p.next + 3), Tok(ts, p.next + 4)>>
                                # <<")", "{", "}">> THEN Fail
                        ELSE Parsed([type |-> "FunctionDeclaration",
                                     id |-> [type |-> "Identifier", name |-> Tok(ts, k + 1),
                                             range |-> Range(ts, k + 1, k + 2)],
                                     params |-> <<[p.node EXCEPT
                                                    !.range = Range(ts, k + 3, p.next + 2)]
                                                  @@ [typeAnnotation |-> Tok(ts, p.next + 1)]>>,
                                     range |-> Range(ts, k, p.next + 5)],
                                    p.next + 5)
                ELSE IF t = "for" THEN
                    \* for (const { key } of iterable) {}
                    LET p == Parser("ParseObject", ts, k + 3, [nodeType |-> "ObjectPattern"])
                        r == Parser("ParseAssignment", ts, p.next + 1, NoArguments)
                    IN  IF Tok(ts, k + 1) # "(" \/ Tok(ts, k + 2) # "const" \/ ~p.ok THEN Fail
                        ELSE IF Tok(ts, p.next) # "of" \/ ~r.ok THEN Fail
                        ELSE IF <<Tok(ts, r.next), Tok(ts, r.next + 1), Tok(ts, r.next + 2)>>
                                # <<")", "{", "}">> THEN Fail
                        ELSE Parsed([type |-> "ForOfStatement",
                                     left |-> [type |-> "VariableDeclaration", kind |-> "const",
                                               declarations |->
                                                 <<[type |-> "VariableDeclarator", id |-> p.node,
                                                    range |-> p.node.range]>>,
                                               range |-> Range(ts, k + 2, p.next)],
                                     right |-> r.node,
                                     range |-> Range(ts, k, r.next + 3)],
                                    r.next + 3)
                ELSE LET e == Parser("ParseExpression", ts, k, NoArguments)
                     IN  IF ~e.ok \/ Tok(ts, e.next) # ";" THEN Fail
                         ELSE Parsed([type |-> "ExpressionStatement", expression |-> e.node,
                                      range |-> Range(ts, k, e.next + 1)], e.next + 1)
        )
      [] rule = "ParseStatements" -> (
        LET body == x.body
        IN
            IF k > Len(ts) THEN Parsed(body, k)
            ELSE LET st == Parser("ParseStatement", ts, k, NoArguments)
                 IN  IF ~st.ok THEN Fail
                     ELSE Parser("ParseStatements", ts, st.next, [body |-> Append(body, st.node)])
        )


\* what the parser answers for a text that is no program
SyntaxError == [type |-> "SyntaxError"]

\* the Program node of a parse result b of the text s
Program(b, s) ==
    IF ~b.ok THEN SyntaxError
    ELSE [type |-> "Program", body |-> b.node, range |-> <<1, Len(s)>>]

\* the parse of a source text
Parse(s) == Program(Parser("ParseStatements", Lex(s, 1), 1, [body |-> <<>>]), s)

----------------------------------------------------------------------------
(* Addressing and traversing the AST.  A path is a sequence of             *)
(* <<field, index>> steps from the Program node; index is 0 for a field    *)
(* that holds one node.                                                    *)

RECURSIVE NodeAt(_, _)
NodeAt(node, path) ==
    IF path = <<>> THEN node
    ELSE LET f == Head(path)[1]
             i == Head(path)[2]
         IN  NodeAt(IF i = 0 THEN node[f] ELSE node[f][i], Tail(path))

\* node.parent
ParentPath(path) == SubSeq(path, 1, Len(path) - 1)

\* the last step of a path: the slot of its parent the node fills
Slot(path) == path[Len(path)]

\* the child fields of each node type, in visiting order (ESLint's visitor keys)
VisitorKeys(node) ==
    CASE node.type = "Program" -> <<"body">>
      [] node.type = "ExpressionStatement" -> <<"expression">>
      [] node.type = "VariableDeclaration" -> <<"declarations">>
      [] node.type = "VariableDeclarator" ->
            IF "init" \in DOMAIN node THEN <<"id", "init">> ELSE <<"id">>
      [] node.type = "FunctionDeclaration" -> <<"id", "params">>
      [] node.type = "ArrowFunctionExpression" -> <<"params", "body">>
      [] node.type = "ForOfStatement" -> <<"left", "right">>
      [] node.type = "SequenceExpression" -> <<"expressions">>
      [] node.type = "AssignmentExpression" -> <<"left", "right">>
      [] node.type = "ConditionalExpression" -> <<"test", "consequent", "alternate">>
      [] node.type \in {"LogicalExpression", "BinaryExpression"} -> <<"left", "right">>
      [] node.type \in {"UnaryExpression", "AwaitExpression", "YieldExpression"} ->
            <<"argument">>
      [] node.type \in {"TSAsExpression", "TSSatisfiesExpression",
                        "TSNonNullExpression", "ChainExpression"} -> <<"expression">>
      [] node.type = "CallExpression" -> <<"callee", "arguments">>
      [] node.type = "MemberExpression" -> <<"object", "property">>
      [] node.type \in {"ObjectPattern", "ObjectExpression"} -> <<"properties">>
      [] node.type = "Property" ->
            IF node.shorthand THEN <<"key">> ELSE <<"key", "value">>
      [] node.type = "TemplateLiteral" -> <<"expressions">>
      [] OTHER -> <<>>

\* the fields that hold a list of nodes; the body of an arrow function is
\* one node
ArrayFields(node) ==
    {"body", "declarations", "params", "expressions", "arguments", "properties"}
    \ (IF node.type = "ArrowFunctionExpression" THEN {"body"} ELSE {})

RECURSIVE ChildPaths(_, _, _)
ChildPaths(node, path, keys) ==
    IF keys = <<>> THEN <<>>
    ELSE LET f == Head(keys)
             here == IF f \in ArrayFields(node)
                     THEN [i \in 1..Len(node[f]) |-> Append(path, <<f, i>>)]
                     ELSE <<Append(path, <<f, 0>>)>>
         IN  here \o ChildPaths(node, path, Tail(keys))

\* the paths of all nodes below and including the given ones, in the
\* depth-first order in which ESLint enters them
RECURSIVE Traverse(_, _)
Traverse(program, paths) ==
    IF paths = <<>> THEN <<>>
    ELSE LET p == Head(paths)
             n == NodeAt(program, p)
         IN  <<p>> \o Traverse(program, ChildPaths(n, p, VisitorKeys(n)) \o Tail(paths))

\* the node types a rule of the plugin listens to
ListenedTypes == {"ExpressionStatement", "MemberExpression", "Property"}

\* the listeners called when a node is entered and again when it is left
Visits_EnterAndExit(program) ==
    IF program = SyntaxError THEN <<>>
    ELSE LET enters == SelectSeq(Traverse(program, <<<<>>>>),
                                 LAMBDA p : NodeAt(program, p).type \in ListenedTypes)
         IN  enters \o enters

\* the visits one lint pass makes to the listeners, in order
Visits(program) ==
    IF program = SyntaxError THEN <<>>
    ELSE SelectSeq(Traverse(program, <<<<>>>>),
                   LAMBDA p : NodeAt(program, p).type \in ListenedTypes)

\* sourceCode.getText(node)
getText(s, node) == SubSeq(s, node.range[1], node.range[2])

----------------------------------------------------------------------------
(* The type-checker snapshot: checker.getTypeAtLocation.                   *)

StringT == Atom({"String"}, <<>>)

\* the declared variables of the linted file
Env ==
    ("okValue" :> OkT) @@ ("errValue" :> ErrT) @@ ("result" :> ResultT)
    @@ ("asyncResult" :> ResultAsyncT)
    @@ ("maybeOk" :> Union(<<OkT, UndefinedT>>))
    @@ ("okOrBox" :> Union(<<OkT, BoxT>>))
    @@ ("box" :> BoxT) @@ ("maybe" :> AnyT)
    @@ ("userOk" :> ObjectT("Ok", <<UserFile>>))
    @@ ("n" :> NumberT) @@ ("cond" :> BooleanT) @@ ("method" :> StringT)

\* the declared functions of the linted file and their return types
Functions ==
    ("ok" :> OkT) @@ ("err" :> ErrT) @@ ("okAsync" :> ResultAsyncT)
    @@ ("getResult" :> ResultT) @@ ("log" :> VoidT)

\* the declared arrays of the linted file and their element types
Iterables ==
    ("results" :> ResultT) @@ ("oks" :> OkT) @@ ("boxes" :> BoxT)

\* TNext of the generator the linted statement lies in
YieldResumeType == ResultT

\* Awaited<T>: ResultAsync is a PromiseLike of Result
RECURSIVE Awaited(_)
Awaited(t) ==
    IF isUnion(t) THEN Union([i \in 1..Len(t.types) |-> Awaited(t.types[i])])
    ELSE IF t = ResultAsyncT THEN ResultT
    ELSE t

\* NonNullable<T>
NonNullable(t) ==
    IF ~isUnion(t) THEN t
    ELSE LET rest == SelectSeq(t.types, LAMBDA m : m.flags \cap {"Null", "Undefined"} = {})
         IN  IF Len(rest) = 1 THEN rest[1] ELSE Union(rest)

\* the type of receiver.name for a receiver of the given type
PropertyType(receiver, name) ==
    IF receiver = AnyT THEN AnyT
    ELSE IF name \in {"value", "error"} THEN NumberT
    ELSE AnonT

\* the type of receiver.name(...) for a receiver of the given type
MethodReturnType(receiver, name) ==
    IF receiver = AnyT THEN AnyT
    ELSE IF name = "map" /\ isResultType(receiver) THEN NonNullable(receiver)
    ELSE IF "ResultAsync" \in collectResultTypes(receiver, EmptyCollection).names THEN AnonT
    ELSE NumberT

\* the property a member access reads, as the checker resolves it: <<name>>,
\* or <<>> for a key of type string
KeyOf(member) ==
    IF ~member.computed THEN <<member.property.name>>
    ELSE IF member.property.type = "Literal" THEN <<member.property.value>>
    ELSE IF member.property.type = "TemplateLiteral" /\ member.property.expressions = <<>>
         THEN <<member.property.quasis[1].cooked>>
    ELSE <<>>

\* the static type of an expression node
RECURSIVE TypeOfExpression(_)
TypeOfExpression(node) ==
    CASE node.type = "Identifier" ->
            IF node.name \in DOMAIN Env THEN Env[node.name]
            ELSE IF node.name \in DOMAIN Iterables THEN AnonT
            ELSE IF node.name \in DOMAIN Functions THEN AnonT
            ELSE AnyT
      [] node.type = "Literal" ->
            IF node.valueType = "string" THEN StringT ELSE NumberT
      [] node.type = "TemplateLiteral" -> StringT
      [] node.type = "CallExpression" ->
            IF node.callee.type = "Identifier" THEN
                IF node.callee.name \in DOMAIN Functions
                THEN Functions[node.callee.name] ELSE AnyT
            ELSE IF node.callee.type = "MemberExpression" THEN
                IF KeyOf(node.callee) = <<>> THEN AnyT
                ELSE MethodReturnType(TypeOfExpression(node.callee.object),
                                      KeyOf(node.callee)[1])
            ELSE AnyT
      [] node.type = "MemberExpression" ->
            IF KeyOf(node) = <<>> THEN AnyT
            ELSE PropertyType(TypeOfExpression(node.object), KeyOf(node)[1])
      [] node.type = "UnaryExpression" ->
            IF node.operator = "void" THEN UndefinedT
            ELSE IF node.operator \in {"!", "delete"} THEN BooleanT
            ELSE IF node.operator = "typeof" THEN StringT
            ELSE NumberT
      [] node.type = "AwaitExpression" -> Awaited(TypeOfExpression(node.argument))
      [] node.type = "YieldExpression" -> YieldResumeType
      [] node.type = "AssignmentExpression" -> TypeOfExpression(node.right)
      [] node.type = "ConditionalExpression" ->
            Union(<<TypeOfExpression(node.consequent), TypeOfExpression(node.alternate)>>)
      [] node.type = "LogicalExpression" ->
            Union(<<TypeOfExpression(node.left), TypeOfExpression(node.right)>>)
      [] node.type = "SequenceExpression" ->
            TypeOfExpression(node.expressions[Len(node.expressions)])
      [] node.type = "TSAsExpression" ->
            IF node.typeAnnotation \in DOMAIN TypeAnnotations
            THEN TypeAnnotations[node.typeAnnotation] ELSE AnyT
      [] node.type = "TSSatisfiesExpression" -> TypeOfExpression(node.expression)
      [] node.type = "TSNonNullExpression" -> NonNullable(TypeOfExpression(node.expression))
      [] node.type = "ChainExpression" -> TypeOfExpression(node.expression)
      [] node.type = "BinaryExpression" -> NumberT
      [] OTHER -> AnonT

\* checker.getTypeAtLocation(services.esTreeNodeToTSNodeMap.get(node)) for
\* the node at the given path; a binding pattern has the type of what it
\* destructures, except as an assignment target, where it has the type of
\* the target object
getTypeAtLocation(program, path) ==
    LET node == NodeAt(program, path)
        parent == NodeAt(program, ParentPath(path))
    IN  IF node.type # "ObjectPattern" THEN TypeOfExpression(node)
        ELSE IF parent.type = "VariableDeclarator" THEN
            IF "init" \in DOMAIN parent THEN TypeOfExpression(parent.init)
            ELSE \* the declaration of a for-of loop
                 LET loop == NodeAt(program, SubSeq(path, 1, Len(path) - 3))
                 IN  IF loop.right.type = "Identifier" /\ loop.right.name \in DOMAIN Iterables
                     THEN Iterables[loop.right.name] ELSE AnyT
        ELSE IF parent.type = "FunctionDeclaration" THEN
            TypeAnnotations[node.typeAnnotation]
        ELSE AnonT

----------------------------------------------------------------------------
(* The fixer of the host: an edit replaces the lexemes range[1]..range[2]  *)
(* of the text; an insertion has an empty range.                           *)

insertTextBefore(node, t) ==
    [range |-> <<node.range[1], node.range[1] - 1>>, text |-> t]

insertTextAfter(node, t) ==
    [range |-> <<node.range[2] + 1, node.range[2]>>, text |-> t]

replaceText(node, t) == [range |-> node.range, text |-> t]

\* the text after one edit
ApplyEdit(s, e) ==
    SubSeq(s, 1, e.range[1] - 1) \o e.text \o SubSeq(s, e.range[2] + 1, Len(s))

\* the text after the edits of one fix, which are in source order and do
\* not overlap: the last is applied first, so that offsets stay valid
RECURSIVE ApplyEdits(_, _)
ApplyEdits(s, edits) ==
    IF edits = <<>> THEN s
    ELSE ApplyEdits(ApplyEdit(s, edits[Len(edits)]), SubSeq(edits, 1, Len(edits) - 1))

\* a diagnostic as handed to context.report; fix and suggest are empty
\* when the report carries none
Report(ruleId, node, messageId, method, fix, suggest) ==
    [ruleId |-> ruleId, node |-> node, messageId |-> messageId, method |-> method,
     fix |-> fix, suggest |-> suggest]

----------------------------------------------------------------------------
(* rules/no-unused-result.ts                                               *)

\* needsParentheses answering false for every node
needsParentheses_Never(node) == FALSE

\* needsParentheses with the satisfies case left out
needsParentheses_WithoutSatisfies(node) ==
    node.type \in {"SequenceExpression", "AssignmentExpression", "ConditionalExpression",
                   "LogicalExpression", "BinaryExpression", "TSAsExpression"}

needsParentheses(node) ==
    node.type \in {"SequenceExpression", "AssignmentExpression", "ConditionalExpression",
                   "LogicalExpression", "BinaryExpression", "TSAsExpression",
                   "TSSatisfiesExpression"}

\* the fix of the addVoid suggestion for a statement
addVoidFix(statement) ==
    LET expr == statement.expression
    IN  IF needsParentheses(expr)
        THEN <<insertTextBefore(expr, <<"void", " ", "(">>), insertTextAfter(expr, <<")">>)>>
        ELSE <<insertTextBefore(expr, <<"void", " ">>)>>

\* the switch with the void case left out: void is walked like any unary operator
switchCases_VoidAsUnary(node) ==
    CASE node.type = "UnaryExpression" ->
            [leaf |-> FALSE, operands |-> <<<<"argument", 0>>>>]
      [] node.type = "ConditionalExpression" ->
            [leaf |-> FALSE, operands |-> <<<<"consequent", 0>>, <<"alternate", 0>>>>]
      [] node.type = "LogicalExpression" ->
            [leaf |-> FALSE, operands |-> <<<<"left", 0>>, <<"right", 0>>>>]
      [] node.type = "SequenceExpression" ->
            [leaf |-> FALSE,
             operands |-> [i \in 1..Len(node.expressions) |-> <<"expressions", i>>]]
      [] node.type \in {"TSAsExpression", "TSNonNullExpression"} ->
            [leaf |-> FALSE, operands |-> <<<<"expression", 0>>>>]
      [] node.type = "ChainExpression" ->
            [leaf |-> FALSE, operands |-> <<<<"expression", 0>>>>]
      [] OTHER -> [leaf |-> TRUE, operands |-> <<>>]

\* the switch with the alternate of a conditional forgotten
switchCases_ConsequentOnly(node) ==
    CASE node.type = "UnaryExpression" ->
            IF node.operator = "void" THEN [leaf |-> FALSE, operands |-> <<>>]
            ELSE [leaf |-> FALSE, operands |-> <<<<"argument", 0>>>>]
      [] node.type = "ConditionalExpression" ->
            [leaf |-> FALSE, operands |-> <<<<"consequent", 0>>>>]
      [] node.type = "LogicalExpression" ->
            [leaf |-> FALSE, operands |-> <<<<"left", 0>>, <<"right", 0>>>>]
      [] node.type = "SequenceExpression" ->
            [leaf |-> FALSE,
             operands |-> [i \in 1..Len(node.expressions) |-> <<"expressions", i>>]]
      [] node.type \in {"TSAsExpression", "TSNonNullExpression"} ->
            [leaf |-> FALSE, operands |-> <<<<"expression", 0>>>>]
      [] node.type = "ChainExpression" ->
            [leaf |-> FALSE, operands |-> <<<<"expression", 0>>>>]
      [] OTHER -> [leaf |-> TRUE, operands |-> <<>>]

\* the switch walking the test of a conditional as well
switchCases_WithTest(node) ==
    CASE node.type = "UnaryExpression" ->
            IF node.operator = "void" THEN [leaf |-> FALSE, operands |-> <<>>]
            ELSE [leaf |-> FALSE, operands |-> <<<<"argument", 0>>>>]
      [] node.type = "ConditionalExpression" ->
            [leaf |-> FALSE,
             operands |-> <<<<"test", 0>>, <<"consequent", 0>>, <<"alternate", 0>>>>]
      [] node.type = "LogicalExpression" ->
            [leaf |-> FALSE, operands |-> <<<<"left", 0>>, <<"right", 0>>>>]
      [] node.type = "SequenceExpression" ->
            [leaf |-> FALSE,
             operands |-> [i \in 1..Len(node.expressions) |-> <<"expressions", i>>]]
      [] node.type \in {"TSAsExpression", "TSNonNullExpression"} ->
            [leaf |-> FALSE, operands |-> <<<<"expression", 0>>>>]
      [] node.type = "ChainExpression" ->
            [leaf |-> FALSE, operands |-> <<<<"expression", 0>>>>]
      [] OTHER -> [leaf |-> TRUE, operands |-> <<>>]

\* the switch walking only the right operand of a logical operator
switchCases_RightOnly(node) ==
    CASE node.type = "UnaryExpression" ->
            IF node.operator = "void" THEN [leaf |-> FALSE, operands |-> <<>>]
            ELSE [leaf |-> FALSE, operands |-> <<<<"argument", 0>>>>]
      [] node.type = "ConditionalExpression" ->
            [leaf |-> FALSE, operands |-> <<<<"consequent", 0>>, <<"alternate", 0>>>>]
      [] node.type = "LogicalExpression" ->
            [leaf |-> FALSE, operands |-> <<<<"right", 0>>>>]
      [] node.type = "SequenceExpression" ->
            [leaf |-> FALSE,
             operands |-> [i \in 1..Len(node.expressions) |-> <<"expressions", i>>]]
      [] node.type \in {"TSAsExpression", "TSNonNullExpression"} ->
            [leaf |-> FALSE, operands |-> <<<<"expression", 0>>>>]
      [] node.type = "ChainExpression" ->
            [leaf |-> FALSE, operands |-> <<<<"expression", 0>>>>]
      [] OTHER -> [leaf |-> TRUE, operands |-> <<>>]

\* the switch walking the alternate of a conditional before the consequent
switchCases_AlternateFirst(node) ==
    CASE node.type = "UnaryExpression" ->
            IF node.operator = "void" THEN [leaf |-> FALSE, operands |-> <<>>]
            ELSE [leaf |-> FALSE, operands |-> <<<<"argument", 0>>>>]
      [] node.type = "ConditionalExpression" ->
            [leaf |-> FALSE, operands |-> <<<<"alternate", 0>>, <<"consequent", 0>>>>]
      [] node.type = "LogicalExpression" ->
            [leaf |-> FALSE, operands |-> <<<<"left", 0>>, <<"right", 0>>>>]
      [] node.type = "SequenceExpression" ->
            [leaf |-> FALSE,
             operands |-> [i \in 1..Len(node.expressions) |-> <<"expressions", i>>]]
      [] node.type \in {"TSAsExpression", "TSNonNullExpression"} ->
            [leaf |-> FALSE, operands |-> <<<<"expression", 0>>>>]
      [] node.type = "ChainExpression" ->
            [leaf |-> FALSE, operands |-> <<<<"expression", 0>>>>]
      [] OTHER -> [leaf |-> TRUE, operands |-> <<>>]

\* the switch walking the left operand of a logical operator twice
switchCases_LeftTwice(node) ==
    CASE node.type = "UnaryExpression" ->
            IF node.operator = "void" THEN [leaf |-> FALSE, operands |-> <<>>]
            ELSE [leaf |-> FALSE, operands |-> <<<<"argument", 0>>>>]
      [] node.type = "ConditionalExpression" ->
            [leaf |-> FALSE, operands |-> <<<<"consequent", 0>>, <<"alternate", 0>>>>]
      [] node.type = "LogicalExpression" ->
            [leaf |-> FALSE,
             operands |-> <<<<"left", 0>>, <<"left", 0>>, <<"right", 0>>>>]
      [] node.type = "SequenceExpression" ->
            [leaf |-> FALSE,
             operands |-> [i \in 1..Len(node.expressions) |-> <<"expressions", i>>]]
      [] node.type \in {"TSAsExpression", "TSNonNullExpression"} ->
            [leaf |-> FALSE, operands |-> <<<<"expression", 0>>>>]
      [] node.type = "ChainExpression" ->
            [leaf |-> FALSE, operands |-> <<<<"expression", 0>>>>]
      [] OTHER -> [leaf |-> TRUE, operands |-> <<>>]

\* the switch of checkExpression: the operands the walk goes on to, as
\* steps from the node; a void operator has none, and the default case of
\* the switch is a leaf
switchCases(node) ==
    CASE node.type = "UnaryExpression" ->
            IF node.operator = "void" THEN [leaf |-> FALSE, operands |-> <<>>]
            ELSE [leaf |-> FALSE, operands |-> <<<<"argument", 0>>>>]
      [] node.type = "ConditionalExpression" ->
            [leaf |-> FALSE, operands |-> <<<<"consequent", 0>>, <<"alternate", 0>>>>]
      [] node.type = "LogicalExpression" ->
            [leaf |-> FALSE, operands |-> <<<<"left", 0>>, <<"right", 0>>>>]
      [] node.type = "SequenceExpression" ->
            [leaf |-> FALSE,
             operands |-> [i \in 1..Len(node.expressions) |-> <<"expressions", i>>]]
      [] node.type \in {"TSAsExpression", "TSNonNullExpression"} ->
            [leaf |-> FALSE, operands |-> <<<<"expression", 0>>>>]
      [] node.type = "ChainExpression" ->
            [leaf |-> FALSE, operands |-> <<<<"expression", 0>>>>]
      [] OTHER -> [leaf |-> TRUE, operands |-> <<>>]

\* the reports of checkExpression(node, statement), in the order made
RECURSIVE checkExpression(_, _, _)
RECURSIVE checkExpressions(_, _, _, _)
checkExpression(program, path, statement) ==
    LET node == NodeAt(program, path)
    IN  IF ~switchCases(node).leaf THEN
            checkExpressions(program, path, switchCases(node).operands, statement)
        ELSE IF ~isResultType(getTypeAtLocation(program, path)) THEN <<>>
        ELSE <<Report("no-unused-result", node, "unusedResult", "", <<>>,
                      <<[messageId |-> "addVoid", fix |-> addVoidFix(statement)]>>)>>

\* checkExpression on each of the given operands of the node at path, in order
checkExpressions(program, path, operands, statement) ==
    IF operands = <<>> THEN <<>>
    ELSE checkExpression(program, Append(path, Head(operands)), statement)
         \o checkExpressions(program, path, Tail(operands), statement)

\* the ExpressionStatement listener
unusedResultExpressionStatement(program, path) ==
    LET node == NodeAt(program, path)
    IN  checkExpression(program, Append(path, <<"expression", 0>>), node)

----------------------------------------------------------------------------
(* rules/no-unsafe-unwrap.ts                                               *)

\* BANNED_METHOD_NAMES with expectErr forgotten
BANNED_METHOD_NAMES_WithoutExpectErr == {"unwrap", "unwrapErr", "expect"}

BANNED_METHOD_NAMES == {"unwrap", "unwrapErr", "expect", "expectErr"}
\* FIXABLE_OK_METHOD_NAMES holding the method of the other variant
FIXABLE_OK_METHOD_NAMES_Swapped == {"unwrapErr"}

FIXABLE_OK_METHOD_NAMES == {"unwrap"}

\* FIXABLE_ERR_METHOD_NAMES holding the accessor with a custom message too
FIXABLE_ERR_METHOD_NAMES_WithExpectErr == {"unwrapErr", "expectErr"}

FIXABLE_ERR_METHOD_NAMES == {"unwrapErr"}

\* the null of string | null
Null == "<null>"

\* !method
Falsy(method) == method = Null \/ method = ""

\* getStaticMemberName without the test of node.computed for identifiers
getStaticMemberName_AnyIdentifier(node) ==
    IF node.property.type = "Identifier" THEN node.property.name
    ELSE IF node.computed /\ node.property.type = "Literal"
            /\ node.property.valueType = "string" THEN node.property.value
    ELSE IF node.computed /\ node.property.type = "TemplateLiteral"
            /\ Len(node.property.expressions) = 0 THEN node.property.quasis[1].cooked
    ELSE Null

getStaticMemberName(node) ==
    IF ~node.computed /\ node.property.type = "Identifier" THEN node.property.name
    ELSE IF node.computed /\ node.property.type = "Literal"
            /\ node.property.valueType = "string" THEN node.property.value
    ELSE IF node.computed /\ node.property.type = "TemplateLiteral"
            /\ Len(node.property.expressions) = 0 THEN node.property.quasis[1].cooked
    ELSE Null

getDestructuredPropertyName(node) ==
    IF node.computed THEN
        IF node.key.type = "Literal" /\ node.key.valueType = "string" THEN node.key.value
        ELSE IF node.key.type = "TemplateLiteral" /\ Len(node.key.expressions) = 0
             THEN node.key.quasis[1].cooked
        ELSE Null
    ELSE IF node.key.type = "Identifier" THEN node.key.name
    ELSE IF node.key.type = "Literal" /\ node.key.valueType = "string" THEN node.key.value
    ELSE Null

\* no node
NullNode == [type |-> "null"]

getCallExpression(program, path) ==
    LET parent == NodeAt(program, ParentPath(path))
    IN  IF parent.type = "CallExpression" /\ Slot(path)[1] = "callee" THEN parent
        ELSE NullNode

\* s.endsWith(suffix)
endsWith(s, suffix) ==
    Len(suffix) <= Len(s) /\ SubSeq(s, Len(s) - Len(suffix) + 1, Len(s)) = suffix

\* getFixedMemberExpressionText writing a plain dot for an optional access
getFixedMemberExpressionText_DropsOptional(node, method, propertyName, s) ==
    LET memberText == getText(s, node)
        propertyText == getText(s, node.property)
        oldSuffix == IF node.computed
                     THEN (IF node.optional THEN <<"?.", "[">> ELSE <<"[">>)
                          \o propertyText \o <<"]">>
                     ELSE <<IF node.optional THEN "?." ELSE ".", method>>
    IN  IF ~endsWith(memberText, oldSuffix) THEN <<>>
        ELSE SubSeq(memberText, 1, Len(memberText) - Len(oldSuffix))
             \o <<".", propertyName>>

\* getFixedMemberExpressionText without the test that the text ends with
\* the suffix it is about to cut off
getFixedMemberExpressionText_Unchecked(node, method, propertyName, s) ==
    LET memberText == getText(s, node)
        propertyText == getText(s, node.property)
        oldSuffix == IF node.computed
                     THEN (IF node.optional THEN <<"?.", "[">> ELSE <<"[">>)
                          \o propertyText \o <<"]">>
                     ELSE <<IF node.optional THEN "?." ELSE ".", method>>
    IN  SubSeq(memberText, 1, Len(memberText) - Len(oldSuffix))
        \o <<IF node.optional THEN "?." ELSE ".", propertyName>>

\* the replacement text, or <<>> for null
getFixedMemberExpressionText(node, method, propertyName, s) ==
    LET memberText == getText(s, node)
        propertyText == getText(s, node.property)
        oldSuffix == IF node.computed
                     THEN (IF node.optional THEN <<"?.", "[">> ELSE <<"[">>)
                          \o propertyText \o <<"]">>
                     ELSE <<IF node.optional THEN "?." ELSE ".", method>>
    IN  IF ~endsWith(memberText, oldSuffix) THEN <<>>
        ELSE SubSeq(memberText, 1, Len(memberText) - Len(oldSuffix))
             \o <<IF node.optional THEN "?." ELSE ".", propertyName>>

\* the fix(fixer) callback of the two fixable reports
unwrapFix(node, method, propertyName, callExpression, s) ==
    LET fixedText == getFixedMemberExpressionText(node, method, propertyName, s)
    IN  IF fixedText = <<>> THEN <<>>
        ELSE <<replaceText(callExpression, fixedText)>>

\* the MemberExpression listener: the reports it makes
unsafeUnwrapMemberExpression(program, path, s) ==
    LET node == NodeAt(program, path)
        method == getStaticMemberName(node)
        tsType0 == getTypeAtLocation(program, Append(path, <<"object", 0>>))
        callExpression == getCallExpression(program, path)
        resultVariant == getResultVariant(tsType0)
    IN  IF Falsy(method) \/ method \notin BANNED_METHOD_NAMES THEN <<>>
        ELSE IF ~isResultType(tsType0) THEN <<>>
        ELSE IF callExpression # NullNode /\ resultVariant = ResultVariant.OK
                /\ method \in FIXABLE_OK_METHOD_NAMES THEN
            <<Report("no-unsafe-unwrap", node, "unwrapOkValue", method,
                     unwrapFix(node, method, "value", callExpression, s), <<>>)>>
        ELSE IF callExpression # NullNode /\ resultVariant = ResultVariant.ERR
                /\ method \in FIXABLE_ERR_METHOD_NAMES THEN
            <<Report("no-unsafe-unwrap", node, "unwrapErrError", method,
                     unwrapFix(node, method, "error", callExpression, s), <<>>)>>
        ELSE <<Report("no-unsafe-unwrap", node, "unsafeUnwrap", method, <<>>, <<>>)>>

\* typeSourceNode without the assignment case: always the pattern
typeSourceNode_AlwaysPattern(program, patternPath) == patternPath

\* the node whose type is that of the value destructured by the pattern:
\* the pattern, or the right-hand side when the pattern is assigned to
typeSourceNode(program, patternPath) ==
    LET patternParent == NodeAt(program, ParentPath(patternPath))
    IN  IF patternParent.type = "AssignmentExpression" /\ Slot(patternPath)[1] = "left"
        THEN Append(ParentPath(patternPath), <<"right", 0>>)
        ELSE patternPath

\* the Property listener: the reports it makes
unsafeUnwrapProperty(program, path) ==
    LET node == NodeAt(program, path)
        patternPath == ParentPath(path)
        pattern == NodeAt(program, patternPath)
        method == getDestructuredPropertyName(node)
    IN  IF pattern.type # "ObjectPattern" THEN <<>>
        ELSE IF Falsy(method) \/ method \notin BANNED_METHOD_NAMES THEN <<>>
        ELSE IF ~isResultType(getTypeAtLocation(program, typeSourceNode(program, patternPath)))
             THEN <<>>
        ELSE <<Report("no-unsafe-unwrap", node, "unsafeUnwrap", method, <<>>, <<>>)>>

----------------------------------------------------------------------------
(* The sources that are linted.  An expression is generated as its text    *)
(* and the binding strength of its outermost operator (0 sequence,         *)
(* 1 assignment and yield, 2 conditional, 3 ?? and ||, 4 &&, 5 as and      *)
(* satisfies, 6 +, 7 unary, 8 call, member and primary), so that operands  *)
(* are parenthesised where the grammar needs it.                           *)

Source(t, prec) == [text |-> t, prec |-> prec]

\* an operand in a position that needs at least the given binding strength
Operand(e, minPrec) ==
    IF e.prec < minPrec THEN <<"(">> \o e.text \o <<")">> ELSE e.text

\* the value positions a statement is built from
Leaves ==
    { Source(<<"ok", "(", "1", ")">>, 8),
      Source(<<"okAsync", "(", "1", ")">>, 8),
      Source(<<"result">>, 8),
      Source(<<"n">>, 8),
      Source(<<"maybeOk", "?.", "map", "(", "n", ")">>, 8) }

\* a leaf, or a leaf discarded with void
SimpleOperands ==
    Leaves \cup { Source(<<"void", " ", "ok", "(", "1", ")">>, 7) }

\* one operator around e
UnaryForms(e) ==
    { Source(<<op>> \o Operand(e, 7), 7) : op \in {"void", "!", "typeof", "await"} }
    \cup { Source(<<"yield">> \o Operand(e, 1), 1),
           Source(<<"x", "=">> \o Operand(e, 1), 1),
           Source(Operand(e, 5) \o <<"as", "Result<number,string>">>, 5),
           Source(Operand(e, 5) \o <<"satisfies", "Result<number,string>">>, 5),
           Source(Operand(e, 8) \o <<"!">>, 8) }

\* one operator joining a and b
BinaryForms(a, b) ==
    { Source(<<"cond", "?">> \o Operand(a, 1) \o <<":">> \o Operand(b, 1), 2),
      Source(Operand(a, 4) \o <<"&&">> \o Operand(b, 5), 4),
      Source(Operand(a, 5) \o <<"??">> \o Operand(b, 5), 3),
      Source(Operand(a, 1) \o <<",">> \o Operand(b, 1), 0),
      Source(Operand(a, 6) \o <<"+">> \o Operand(b, 7), 6) }

\* the expressions with at most d operators nested around a simple operand;
\* the other operand of a two-operand operator is simple
RECURSIVE Expressions(_)
Expressions(d) ==
    IF d = 0 THEN SimpleOperands
    ELSE LET inner == Expressions(d - 1)
         IN  inner
             \cup UNION { UnaryForms(e) : e \in inner }
             \cup UNION { BinaryForms(e, o) \cup BinaryForms(o, e) :
                          e \in inner, o \in SimpleOperands }

ExpressionFiles == { e.text \o <<";">> : e \in Expressions(MaxDepth) }

\* the receivers of member accesses and the sources of destructurings
Receivers ==
    { <<"okValue">>, <<"errValue">>, <<"result">>, <<"asyncResult">>, <<"maybeOk">>,
      <<"okOrBox">>, <<"box">>, <<"maybe">>, <<"userOk">>, <<"n">>,
      <<"ok", "(", "1", ")">> }

\* the ways a member access is written
Accesses ==
    UNION { { <<".", m>>, <<"?.", m>>, <<"[", Quote(m), "]">>,
              <<"?.", "[", Quote(m), "]">>, <<"[", Template(m), "]">>,
              <<"[", " ", Quote(m), " ", "]">>, <<" ", ".", m>>, <<".", " ", m>> } :
            m \in PropertyNames \ {"value", "error"} }
    \cup { <<"[", "method", "]">>, <<"[", "unwrap", "]">>,
           <<"[", InterpolatedTemplate, "]">>, <<"[", "1", "]">>,
           <<".", "unw\\u0072ap">>, <<".", "unwrap\\u0045rr">> }

\* a member access read, called, or called optionally, as a statement, and
\* read in a declaration
MemberFiles ==
    { r \o a \o call \o <<";">> :
        r \in Receivers, a \in Accesses,
        call \in {<<>>, <<"(", ")">>, <<"?.", "(", ")">>} }
    \cup { <<"const", "fn", "=">> \o r \o a \o <<";">> : r \in Receivers, a \in Accesses }

\* the ways a property of an object pattern is written
PatternKeys ==
    UNION { { <<m>>, <<m, ":", "fn">>, <<"[", Quote(m), "]", ":", "fn">>,
              <<"[", Template(m), "]", ":", "fn">>, <<Quote(m), ":", "fn">> } :
            m \in PropertyNames \ {"value", "error"} }
    \cup { <<"[", "method", "]", ":", "fn">>, <<"[", "unwrap", "]", ":", "fn">>,
           <<"1", ":", "one">>,
           <<"[", InterpolatedTemplate, "]", ":", "fn">> }

\* a destructuring in a declaration, in an assignment, of a parameter and in
\* a for-of loop; and an object literal, which is no pattern
PatternFiles ==
    UNION { { <<"const", "{">> \o k \o <<"}", "=">> \o r \o <<";">> : r \in Receivers }
            \cup { <<"(", "{">> \o k \o <<"}", "=">> \o r \o <<")", ";">> : r \in Receivers }
            \cup { <<"function", "take", "(", "{">> \o k \o <<"}", ":", t, ")", "{", "}">> :
                   t \in DOMAIN TypeAnnotations }
            \cup { <<"for", "(", "const", "{">> \o k \o <<"}", "of", i, ")", "{", "}">> :
                   i \in DOMAIN Iterables }
            \cup { <<"log", "(", "{">> \o k \o <<"}", ")", ";">> } :
            k \in PatternKeys }

\* statements with a value in a position that is no value of the statement:
\* the argument of a call, the body of a function, the test of a
\* conditional; statements joined by ||; and files of two statements
OpaqueFiles ==
    { <<"log", "(", "ok", "(", "1", ")", ")", ";">>,
      <<"getResult", "(", "ok", "(", "1", ")", ")", ";">>,
      <<"log", "(", "(", ")", "=>", "ok", "(", "1", ")", ")", ";">>,
      <<"(", ")", "=>", "ok", "(", "1", ")", ";">>,
      <<"result", "?", "n", ":", "ok", "(", "1", ")", ";">>,
      <<"result", "?", "n", ":", "n", ";">>,
      <<"ok", "(", "1", ")", "||", "ok", "(", "2", ")", ";">>,
      <<"n", "||", "result", ";">>,
      <<"ok", "(", "1", ")", ",", "log", "(", "n", ")", ";">>,
      <<"ok", "(", "1", ")", ";", "ok", "(", "1", ")", ";">>,
      <<"n", ";", "result", ";">> }

Files == ExpressionFiles \cup MemberFiles \cup PatternFiles \cup OpaqueFiles

----------------------------------------------------------------------------
(* src/chain.ts with the iterators of src/result.ts and result-async.ts.   *)
(* A generator function is its body: the results it delegates to with      *)
(* yield*, in order, followed by the return of the sum of the values it    *)
(* got; the body may stand in a try with a finally block.                  *)

ok(value) == [tag |-> "Ok", value |-> value]
err(error) == [tag |-> "Err", error |-> error]

\* a promise that is not settled yet
Pending == [tag |-> "Pending"]

\* new ResultAsync(promise), for a promise that is pending or is fulfilled
\* with the given result
ResultAsync(promise) == [tag |-> "ResultAsync", promise |-> promise]

\* chain has not returned
NotReturned == [tag |-> "NotReturned"]

\* the results a generator delegates to
SyncResults == {ok(1), ok(2), err("e1"), err("e2")}
AsyncResults == {ResultAsync(ok(1)), ResultAsync(err("e3"))}

\* the bodies of at most n yield* statements over the given results
RECURSIVE Bodies(_, _)
Bodies(R, n) ==
    IF n = 0 THEN {<<>>}
    ELSE Bodies(R, n - 1) \cup {Append(b, r) : b \in Bodies(R, n - 1), r \in R}

\* function* and async function* generators; only an async generator can
\* delegate to a ResultAsync
Generators ==
    {[async |-> FALSE, body |-> b, cleanup |-> c] :
        b \in Bodies(SyncResults, MaxYields), c \in BOOLEAN}
    \cup {[async |-> TRUE, body |-> b, cleanup |-> c] :
            b \in Bodies(SyncResults \cup AsyncResults, MaxYields), c \in BOOLEAN}

\* the result a yield* operand delivers: Symbol.asyncIterator of a
\* ResultAsync awaits its promise
Delivered(r) == IF r.tag = "ResultAsync" THEN r.promise ELSE r

\* no generator object
NoIter ==
    [state |-> "none", position |-> 0, sum |-> 0, steps |-> <<>>,
     cleaned |-> FALSE, threw |-> FALSE]

\* generator(): a generator object that has not started
NewIter == [NoIter EXCEPT !.state = "suspendedStart"]

\* the generator object once return() has closed it: a generator suspended
\* at a yield closes the iterator it delegates to and leaves through its
\* finally block; one that has not started, or is complete, runs nothing
IterReturn(g, it) ==
    IF it.state = "suspendedYield"
    THEN [it EXCEPT !.state = "completed", !.cleaned = g.cleanup]
    ELSE [it EXCEPT !.state = "completed"]

\* the generator object once next() has resumed it
IterNext(it) ==
    IF it.state \in {"suspendedStart", "suspendedYield"}
    THEN [it EXCEPT !.state = "executing"]
    ELSE it

\* what chain returns for the first iterator result, with the test of done
\* left out
chainValue_AlwaysOk(next) == ok(next.value)

\* what chain returns, or its promise resolves to, for the first iterator
\* result
chainValue(next) == IF ~next.done THEN next.value ELSE ok(next.value)

\* chain is not in use
NoChain ==
    /\ generator = [async |-> FALSE, body |-> <<>>, cleanup |-> FALSE]
    /\ iter = NoIter
    /\ calls = <<>>
    /\ iterResult = Pending
    /\ returned = NotReturned
    /\ pc = "idle"

----------------------------------------------------------------------------
(* The lint run: ESLint parses the text, enters the nodes depth first and  *)
(* calls the listeners of the two rules; an edit of a report can then be   *)
(* applied, after which the new text is linted afresh.                     *)

\* no call of checkExpression or collectResultTypes is in progress.  stack
\* holds the paths of the calls of checkExpression still to be made, visited
\* those made; classifying says whose call of the classifier is running
\* ("leaf": the one of checkExpression, for the node at leaf; "type": one of
\* getResultVariant on tsType); types holds the arguments of the calls of
\* collectResultTypes still to be made, and collection its collection
NoWalk ==
    [statement |-> <<>>, stack |-> <<>>, visited |-> <<>>, classifying |-> "no",
     leaf |-> <<>>, types |-> <<>>, collection |-> EmptyCollection]

\* no edit applied yet
NotApplied == [kind |-> "none", before |-> <<>>, report |-> NullNode]

\* the state of a lint run that starts on the given text
Start(s) ==
    /\ text' = s
    /\ ast' = Parse(s)
    /\ todo' = Visits(Parse(s))
    /\ reports' = <<>>

Init ==
    /\ text \in Files
    /\ ast = Parse(text)
    /\ todo = Visits(ast)
    /\ reports = <<>>
    /\ applied = NotApplied
    /\ walk = NoWalk
    /\ tsType = AnyT
    /\ variant = "unset"
    /\ isResult = "unset"
    /\ NoChain

\* the traversal enters an expression statement: no-unused-result
ExpressionStatement ==
    /\ todo # <<>>
    /\ NodeAt(ast, Head(todo)).type = "ExpressionStatement"
    /\ reports' = reports \o unusedResultExpressionStatement(ast, Head(todo))
    /\ todo' = Tail(todo)
    /\ UNCHANGED <<text, ast, applied, walk, typeVars, chainVars>>

\* the traversal enters a member access: no-unsafe-unwrap
MemberExpression ==
    /\ todo # <<>>
    /\ NodeAt(ast, Head(todo)).type = "MemberExpression"
    /\ reports' = reports \o unsafeUnwrapMemberExpression(ast, Head(todo), text)
    /\ todo' = Tail(todo)
    /\ UNCHANGED <<text, ast, applied, walk, typeVars, chainVars>>

\* the traversal enters a property: no-unsafe-unwrap
Property ==
    /\ todo # <<>>
    /\ NodeAt(ast, Head(todo)).type = "Property"
    /\ reports' = reports \o unsafeUnwrapProperty(ast, Head(todo))
    /\ todo' = Tail(todo)
    /\ UNCHANGED <<text, ast, applied, walk, typeVars, chainVars>>

\* the user applies the suggestion of a report, and the file is linted again
ApplySuggestion ==
    /\ todo = <<>>
    /\ \E i \in DOMAIN reports :
        /\ reports[i].suggest # <<>>
        /\ Start(ApplyEdits(text, reports[i].suggest[1].fix))
        /\ applied' = [kind |-> "suggestion", before |-> text, report |-> reports[i]]
    /\ UNCHANGED <<walk, typeVars, chainVars>>

\* the fix of a report is applied, and the file is linted again
ApplyFix ==
    /\ todo = <<>>
    /\ \E i \in DOMAIN reports :
        /\ reports[i].fix # <<>>
        /\ Start(ApplyEdits(text, reports[i].fix))
        /\ applied' = [kind |-> "fix", before |-> text, report |-> reports[i]]
    /\ UNCHANGED <<walk, typeVars, chainVars>>

Next ==
    \/ ExpressionStatement
    \/ MemberExpression
    \/ Property
    \/ ApplySuggestion
    \/ ApplyFix

Spec == Init /\ [][Next]_vars

----------------------------------------------------------------------------
(* The classifier on its own: a type of the snapshot is classified.        *)

InitClassify ==
    /\ tsType \in Types
    /\ variant = "unset"
    /\ isResult = "unset"
    /\ text = <<>>
    /\ ast = Parse(<<>>)
    /\ todo = <<>>
    /\ reports = <<>>
    /\ applied = NotApplied
    /\ walk = NoWalk
    /\ NoChain

GetResultVariant ==
    /\ variant = "unset"
    /\ variant' = getResultVariant(tsType)
    /\ UNCHANGED <<tsType, isResult, lintVars, chainVars>>

IsResultType ==
    /\ isResult = "unset"
    /\ isResult' = IF isResultType(tsType) THEN "true" ELSE "false"
    /\ UNCHANGED <<tsType, variant, lintVars, chainVars>>

NextClassify ==
    \/ GetResultVariant
    \/ IsResultType

SpecClassify == InitClassify /\ [][NextClassify]_vars

----------------------------------------------------------------------------
(* A call of chain: the generator runs statement by statement between the  *)
(* call of next and the arrival of its result.                             *)

InitChain ==
    /\ generator \in Generators
    /\ iter = NoIter
    /\ calls = <<>>
    /\ iterResult = Pending
    /\ returned = NotReturned
    /\ pc = "start"
    /\ text = <<>>
    /\ ast = Parse(<<>>)
    /\ todo = <<>>
    /\ reports = <<>>
    /\ applied = NotApplied
    /\ walk = NoWalk
    /\ tsType = AnyT
    /\ variant = "unset"
    /\ isResult = "unset"

\* chain(generator) is called: it creates the generator object and calls
\* next; given a promise, it returns a ResultAsync of a promise at once
Chain ==
    /\ pc = "start"
    /\ iter' = IterNext(NewIter)
    /\ calls' = <<"next">>
    /\ returned' = IF generator.async THEN ResultAsync(Pending) ELSE NotReturned
    /\ pc' = "first"
    /\ UNCHANGED <<generator, iterResult, lintVars, typeVars>>

\* the running generator executes its next statement: a yield* of an Ok
\* goes on with the value, a yield* of an Err suspends the generator with
\* the Err as the iterator result, the return statement completes it,
\* through the finally block; resumed after the yield of an Err, the
\* iterator of the Err throws, which ends the generator
GeneratorStep ==
    /\ iter.state = "executing"
    /\ LET k == iter.position + 1
       IN  IF iter.position >= 1 /\ Delivered(generator.body[iter.position]).tag = "Err"
           THEN
               /\ iter' = [iter EXCEPT !.state = "completed",
                                       !.threw = TRUE,
                                       !.cleaned = generator.cleanup]
               /\ UNCHANGED iterResult
           ELSE IF k > Len(generator.body) THEN
               /\ iter' = [iter EXCEPT !.state = "completed",
                                       !.steps = Append(@, k),
                                       !.cleaned = generator.cleanup]
               /\ iterResult' = [done |-> TRUE, value |-> iter.sum]
           ELSE IF Delivered(generator.body[k]).tag = "Ok" THEN
               /\ iter' = [iter EXCEPT !.position = k,
                                       !.steps = Append(@, k),
                                       !.sum = @ + Delivered(generator.body[k]).value]
               /\ UNCHANGED iterResult
           ELSE
               /\ iter' = [iter EXCEPT !.state = "suspendedYield",
                                       !.position = k,
                                       !.steps = Append(@, k)]
               /\ iterResult' = [done |-> FALSE, value |-> Delivered(generator.body[k])]
    /\ UNCHANGED <<generator, calls, returned, pc, lintVars, typeVars>>

\* the iterator result is there and is not done: chain calls return
Close ==
    /\ pc = "first"
    /\ iterResult # Pending
    /\ ~iterResult.done
    /\ calls' = Append(calls, "return")
    /\ iter' = IterReturn(generator, iter)
    /\ pc' = "close"
    /\ UNCHANGED <<generator, iterResult, returned, lintVars, typeVars>>

\* chain returns: the value of the iterator result after return(), or Ok of
\* it when the result was done; in the async form the promise of the
\* ResultAsync it has returned is fulfilled with that
Return ==
    /\ \/ pc = "close"
       \/ pc = "first" /\ iterResult # Pending /\ iterResult.done
    /\ returned' = IF generator.async THEN ResultAsync(chainValue(iterResult))
                   ELSE chainValue(iterResult)
    /\ pc' = "done"
    /\ UNCHANGED <<generator, iter, calls, iterResult, lintVars, typeVars>>

NextChain ==
    \/ Chain
    \/ GeneratorStep
    \/ Close
    \/ Return

SpecChain == InitChain /\ [][NextChain]_vars

----------------------------------------------------------------------------
(* The walk of no-unused-result and the classifier, call by call: the      *)
(* pending calls of checkExpression and collectResultTypes are kept on a   *)
(* stack each, the next call to run first.                                 *)

\* the files the rule is run on by itself
WalkFiles == ExpressionFiles \cup OpaqueFiles

\* the visits of the one listener of no-unused-result
StatementVisits(program) ==
    SelectSeq(Visits(program), LAMBDA p : NodeAt(program, p).type = "ExpressionStatement")

\* either the rule is run on a file, or getResultVariant is called on a type
InitWalk ==
    /\ \/ /\ text \in WalkFiles
          /\ tsType = AnyT
          /\ walk = NoWalk
       \/ /\ text = <<>>
          /\ tsType \in Types
          /\ walk = [NoWalk EXCEPT !.classifying = "type",
                                   !.types = <<tsType>>,
                                   !.collection = NewCollection(NoWalk.collection)]
    /\ ast = Parse(text)
    /\ todo = StatementVisits(ast)
    /\ reports = <<>>
    /\ applied = NotApplied
    /\ variant = "unset"
    /\ isResult = "unset"
    /\ NoChain

\* the traversal enters an expression statement: the listener calls
\* checkExpression on its expression
EnterStatement ==
    /\ walk.stack = <<>>
    /\ walk.classifying = "no"
    /\ todo # <<>>
    /\ walk' = [walk EXCEPT !.statement = Head(todo),
                            !.stack = <<Append(Head(todo), <<"expression", 0>>)>>]
    /\ todo' = Tail(todo)
    /\ UNCHANGED <<text, ast, reports, applied, typeVars, chainVars>>

\* the next call of checkExpression runs up to its calls on the operands,
\* or, for a leaf, up to the call of isResultType on its type
CheckExpression ==
    /\ walk.stack # <<>>
    /\ walk.classifying = "no"
    /\ LET p == Head(walk.stack)
           cases == switchCases(NodeAt(ast, p))
       IN  IF ~cases.leaf
           THEN walk' = [walk EXCEPT
                           !.visited = Append(@, p),
                           !.stack = [i \in 1..Len(cases.operands) |->
                                         Append(p, cases.operands[i])]
                                     \o Tail(@)]
           ELSE walk' = [walk EXCEPT
                           !.visited = Append(@, p),
                           !.stack = Tail(@),
                           !.classifying = "leaf",
                           !.leaf = p,
                           !.types = <<getTypeAtLocation(ast, p)>>,
                           !.collection = NewCollection(@)]
    /\ UNCHANGED <<text, ast, todo, reports, applied, typeVars, chainVars>>

\* the next call of collectResultTypes runs: on a union up to its calls on
\* the members, on another type to its end
CollectResultTypes ==
    /\ walk.types # <<>>
    /\ LET t == Head(walk.types)
       IN  IF isUnion(t)
           THEN walk' = [walk EXCEPT !.types = t.types \o Tail(@)]
           ELSE walk' = [walk EXCEPT !.types = Tail(@),
                                     !.collection = collectResultTypes(t, @)]
    /\ UNCHANGED <<text, ast, todo, reports, applied, typeVars, chainVars>>

\* isResultType has returned to checkExpression, which reports the leaf or
\* not
ReportLeaf ==
    /\ walk.classifying = "leaf"
    /\ walk.types = <<>>
    /\ reports' =
          IF resultVariantOf(walk.collection) = ResultVariant.NONE THEN reports
          ELSE Append(reports,
                      Report("no-unused-result", NodeAt(ast, walk.leaf), "unusedResult", "",
                             <<>>,
                             <<[messageId |-> "addVoid",
                                fix |-> addVoidFix(NodeAt(ast, walk.statement))]>>))
    /\ walk' = [walk EXCEPT !.classifying = "no"]
    /\ UNCHANGED <<text, ast, todo, applied, typeVars, chainVars>>

\* getResultVariant returns to its caller
ReturnVariant ==
    /\ walk.classifying = "type"
    /\ walk.types = <<>>
    /\ variant' = resultVariantOf(walk.collection)
    /\ walk' = [walk EXCEPT !.classifying = "no"]
    /\ UNCHANGED <<text, ast, todo, reports, applied, tsType, isResult, chainVars>>

NextWalk ==
    \/ EnterStatement
    \/ CheckExpression
    \/ CollectResultTypes
    \/ ReportLeaf
    \/ ReturnVariant

SpecWalk == InitWalk /\ [][NextWalk]_vars

\* the analysis is synchronous: a call that can run does run
SpecWalkFair == SpecWalk /\ WF_vars(NextWalk)

----------------------------------------------------------------------------
(* Vocabulary of the properties.                                           *)

\* the paths of all nodes of the program being linted
AllPaths ==
    LET ps == Traverse(ast, <<<<>>>>)
    IN  {ps[i] : i \in DOMAIN ps}

PathsOfType(nodeType) == {p \in AllPaths : NodeAt(ast, p).type = nodeType}

\* the lint pass over the current text is complete
PassDone == todo = <<>> /\ ast # SyntaxError

\* the file is one expression statement
HasRoot ==
    /\ ast # SyntaxError
    /\ Len(ast.body) = 1
    /\ ast.body[1].type = "ExpressionStatement"

\* the root expression of that statement
Root == ast.body[1].expression

\* node a lies within node b
Inside(a, b) == b.range[1] <= a.range[1] /\ a.range[2] <= b.range[2]

IsVoid(node) == node.type = "UnaryExpression" /\ node.operator = "void"

\* the diagnostics of the unused-value check, in the order reported
UnusedReports == SelectSeq(reports, LAMBDA r : r.ruleId = "no-unused-result")

\* the diagnostics of the unsafe-extraction check located on a node
UnwrapReportsOn(node) ==
    {i \in DOMAIN reports :
        reports[i].ruleId = "no-unsafe-unwrap" /\ reports[i].node = node}

\* the member accesses that are the callee of a call
CalleePaths ==
    {p \in PathsOfType("MemberExpression") :
        Slot(p)[1] = "callee" /\ NodeAt(ast, ParentPath(p)).type = "CallExpression"}

\* receiver types that are exactly the success variant, exactly the failure
\* variant, and mixed: Result<T, E>, the async wrapper, Ok | Box
ExactlyOkTypes == {OkT, Union(<<OkT, UndefinedT>>)}
ExactlyErrTypes == {ErrT}
MixedTypes == {ResultT, ResultAsyncT, Union(<<OkT, BoxT>>)}

\* the member access is written receiver.name or receiver?.name
WrittenDotted(node, name) ==
    /\ ~node.computed
    /\ text[node.property.range[1]] = name
    /\ text[node.property.range[1] - 1] \in {".", "?."}

\* the edit that replaces the call by receiver.property
RewrittenCall(node, call, property) ==
    <<[range |-> call.range,
       text |-> SubSeq(text, node.range[1], node.property.range[1] - 2)
                \o <<IF node.optional THEN "?." ELSE ".", property>>]>>

\* the member access at p has exactly one diagnostic, with the given message,
\* and, written with a dot, the fix that rewrites the call
FixableReport(p, messageId, method, property) ==
    LET node == NodeAt(ast, p)
        call == NodeAt(ast, ParentPath(p))
    IN  /\ Cardinality(UnwrapReportsOn(node)) = 1
        /\ \A i \in UnwrapReportsOn(node) :
              /\ reports[i].messageId = messageId
              /\ WrittenDotted(node, method)
                    => reports[i].fix = RewrittenCall(node, call, property)

\* the node has exactly one diagnostic of the unsafe-extraction check: the
\* generic message, without fix or suggestion
GenericReport(node) ==
    /\ Cardinality(UnwrapReportsOn(node)) = 1
    /\ \A i \in UnwrapReportsOn(node) :
          /\ reports[i].messageId = "unsafeUnwrap"
          /\ reports[i].fix = <<>>
          /\ reports[i].suggest = <<>>

----------------------------------------------------------------------------
(* Properties of the lint run (Spec) and of the classifier (SpecClassify). *)

\* C1: a call of unwrap on a receiver that is exactly OK is reported once,
\* with the message unwrapOkValue, and r.unwrap() written with a dot carries
\* the fix that replaces the call by r.value; likewise unwrapErr on a
\* receiver that is exactly ERR: unwrapErrError and r.error.  Applying the
\* fix to r.unwrap(); leaves r.value; and to r.unwrapErr(); leaves r.error;
C1_FixableUnwrap ==
    /\ PassDone =>
          \A p \in CalleePaths :
              LET node == NodeAt(ast, p)
                  receiver == TypeOfExpression(node.object)
              IN  /\ (KeyOf(node) = <<"unwrap">> /\ receiver \in ExactlyOkTypes)
                        => FixableReport(p, "unwrapOkValue", "unwrap", "value")
                  /\ (KeyOf(node) = <<"unwrapErr">> /\ receiver \in ExactlyErrTypes)
                        => FixableReport(p, "unwrapErrError", "unwrapErr", "error")
    /\ \A r \in Receivers :
          /\ (applied.kind = "fix"
                /\ applied.before = r \o <<".", "unwrap", "(", ")", ";">>)
                => text = r \o <<".", "value", ";">>
          /\ (applied.kind = "fix"
                /\ applied.before = r \o <<".", "unwrapErr", "(", ")", ";">>)
                => text = r \o <<".", "error", ";">>

\* okValue.unwrap(); has been fixed to okValue.value; and linted again
C1_Witness ==
    /\ applied.kind = "fix"
    /\ applied.before = <<"okValue", ".", "unwrap", "(", ")", ";">>
    /\ applied.report.messageId = "unwrapOkValue"
    /\ text = <<"okValue", ".", "value", ";">>
    /\ todo = <<>>
    /\ reports = <<>>

\* C2: a call of unwrap or unwrapErr on a receiver of mixed type is reported
\* once, with the message unsafeUnwrap, and carries no fix
C2_MixedReceiverNoFix ==
    PassDone =>
        \A p \in CalleePaths :
            LET node == NodeAt(ast, p)
            IN  (/\ KeyOf(node) \in {<<"unwrap">>, <<"unwrapErr">>}
                 /\ TypeOfExpression(node.object) \in MixedTypes)
                    => GenericReport(node)

\* asyncResult.unwrapErr(); has been linted
C2_Witness ==
    /\ todo = <<>>
    /\ text = <<"asyncResult", ".", "unwrapErr", "(", ")", ";">>
    /\ Len(reports) = 1
    /\ reports[1].messageId = "unsafeUnwrap"
    /\ reports[1].fix = <<>>

\* C3: no diagnostic of the unused-value check is located within a void
\* expression; a statement whose root is void E has none
C3_NothingBeneathVoid ==
    /\ ast # SyntaxError =>
          \A i \in DOMAIN UnusedReports : \A p \in PathsOfType("UnaryExpression") :
              IsVoid(NodeAt(ast, p)) => ~Inside(UnusedReports[i].node, NodeAt(ast, p))
    /\ (HasRoot /\ IsVoid(Root)) => UnusedReports = <<>>

\* cond ? void ok(1) : ok(1); has been linted: one diagnostic, on the
\* alternate
C3_Witness ==
    /\ todo = <<>>
    /\ text = <<"cond", "?", "void", " ", "ok", "(", "1", ")", ":", "ok", "(", "1", ")", ";">>
    /\ Len(UnusedReports) = 1
    /\ UnusedReports[1].node = Root.alternate

\* an expression without an operator
IsPlainLeaf(node) ==
    node.type \in {"Identifier", "Literal", "CallExpression", "MemberExpression"}

\* the diagnostics due for a branch that is a leaf or is voided
BranchFindings(node) ==
    IF IsPlainLeaf(node) /\ isResultType(TypeOfExpression(node)) THEN <<node>> ELSE <<>>

\* C4: for cond ? A : B; with each of A and B a leaf or voided, the
\* diagnostics are exactly one on A when A is a leaf of a type that is not
\* NONE, followed by one on B when B is: two when both are
C4_ConditionalBranches ==
    (/\ PassDone
     /\ HasRoot
     /\ Root.type = "ConditionalExpression"
     /\ (IsPlainLeaf(Root.consequent) \/ IsVoid(Root.consequent))
     /\ (IsPlainLeaf(Root.alternate) \/ IsVoid(Root.alternate)))
        => [i \in 1..Len(UnusedReports) |-> UnusedReports[i].node]
             = BranchFindings(Root.consequent) \o BranchFindings(Root.alternate)

\* cond ? ok(1) : result; has been linted: two diagnostics
C4_Witness ==
    /\ todo = <<>>
    /\ text = <<"cond", "?", "ok", "(", "1", ")", ":", "result", ";">>
    /\ Len(UnusedReports) = 2
    /\ UnusedReports[1].node = Root.consequent
    /\ UnusedReports[2].node = Root.alternate

\* m is the type t or a member of the union t, at any nesting
RECURSIVE HasMember(_, _)
HasMember(t, m) ==
    IF isUnion(t) THEN \E i \in DOMAIN t.types : HasMember(t.types[i], m)
    ELSE t = m

\* C5: a type that is the async wrapper or has it as a union member
\* classifies MIXED
C5_AsyncWrapperIsMixed ==
    (variant # "unset" /\ HasMember(tsType, ResultAsyncT))
        => variant = ResultVariant.MIXED

\* ResultAsync | Ok has been classified
C5_Witness ==
    /\ tsType = Union(<<ResultAsyncT, OkT>>)
    /\ variant = ResultVariant.MIXED

\* the properties of object patterns
PatternPropertyPaths ==
    {p \in PathsOfType("Property") : NodeAt(ast, ParentPath(p)).type = "ObjectPattern"}

\* the type of the value that the pattern holding the property at p
\* destructures: the initialiser of a declaration, the right-hand side of an
\* assignment, the annotation of a parameter, the elements of a for-of loop
DestructuredType(p) ==
    LET patternPath == ParentPath(p)
        pattern == NodeAt(ast, patternPath)
        holder == NodeAt(ast, ParentPath(patternPath))
        loop == NodeAt(ast, SubSeq(patternPath, 1, Len(patternPath) - 3))
    IN  CASE holder.type = "AssignmentExpression" -> TypeOfExpression(holder.right)
          [] holder.type = "VariableDeclarator" /\ "init" \in DOMAIN holder ->
                TypeOfExpression(holder.init)
          [] holder.type = "VariableDeclarator" /\ "init" \notin DOMAIN holder ->
                Iterables[loop.right.name]
          [] holder.type = "FunctionDeclaration" -> TypeAnnotations[pattern.typeAnnotation]

\* C6: a property of an object pattern whose key is a banned name, and whose
\* pattern destructures a value of a type that is not NONE, is reported
\* once, with the message unsafeUnwrap and without a fix
C6_DestructuringNoFix ==
    PassDone =>
        \A p \in PatternPropertyPaths :
            (/\ getDestructuredPropertyName(NodeAt(ast, p))
                    \in {"unwrap", "unwrapErr", "expect", "expectErr"}
             /\ getResultVariant(DestructuredType(p)) # ResultVariant.NONE)
                => GenericReport(NodeAt(ast, p))

\* ({ unwrap } = okValue); has been linted
C6_Witness ==
    /\ todo = <<>>
    /\ text = <<"(", "{", "unwrap", "}", "=", "okValue", ")", ";">>
    /\ \E i \in DOMAIN reports :
          /\ reports[i].node.type = "Property"
          /\ reports[i].messageId = "unsafeUnwrap"
          /\ reports[i].fix = <<>>

\* a key that is neither a string literal nor a template without
\* interpolation
IsDynamicKey(key) ==
    /\ ~(key.type = "Literal" /\ key.valueType = "string")
    /\ ~(key.type = "TemplateLiteral" /\ key.expressions = <<>>)

\* C7: no diagnostic of the unsafe-extraction check is located on a computed
\* member access or a computed pattern property whose key is dynamic
C7_DynamicKeyNeverReported ==
    ast # SyntaxError =>
        \A i \in DOMAIN reports :
            LET node == reports[i].node
            IN  reports[i].ruleId = "no-unsafe-unwrap" =>
                    /\ node.type = "MemberExpression"
                          => ~(node.computed /\ IsDynamicKey(node.property))
                    /\ node.type = "Property"
                          => ~(node.computed /\ IsDynamicKey(node.key))

\* result[unwrap](); has been linted, and nothing is reported
C7_Witness ==
    /\ todo = <<>>
    /\ text = <<"result", "[", "unwrap", "]", "(", ")", ";">>
    /\ PathsOfType("MemberExpression") # {}
    /\ reports = <<>>

\* the statement of the text before the edit that holds the node of the
\* report whose edit was applied
FixedStatement ==
    LET before == Parse(applied.before)
    IN  CHOOSE k \in 1..Len(before.body) : Inside(applied.report.node, before.body[k])

\* C8: once the suggestion of a diagnostic of the unused-value check has been
\* applied and the text linted again, the check has no diagnostic in the
\* statement the suggestion was made for (and none at all when the new text
\* does not parse)
C8_RoundTrip ==
    (applied.kind = "suggestion" /\ todo = <<>>) =>
        \A i \in DOMAIN UnusedReports :
            ~Inside(UnusedReports[i].node, ast.body[FixedStatement])

\* cond ? ok(1) : result; had two diagnostics; the suggestion of one was
\* applied, and the new text parses and has been linted
C8_Witness ==
    /\ applied.kind = "suggestion"
    /\ applied.before = <<"cond", "?", "ok", "(", "1", ")", ":", "result", ";">>
    /\ ast # SyntaxError
    /\ todo = <<>>
    /\ reports = <<>>

\* the root expression types the suggestion parenthesises
ParenthesisedRoots ==
    {"SequenceExpression", "AssignmentExpression", "ConditionalExpression",
     "LogicalExpression", "BinaryExpression", "TSAsExpression", "TSSatisfiesExpression"}

\* the text s of a statement whose root expression is root, discarded
Discarded(s, root) ==
    SubSeq(s, 1, root.range[1] - 1)
    \o <<"void", " ">>
    \o (IF root.type \in ParenthesisedRoots THEN <<"(">> ELSE <<>>)
    \o SubSeq(s, root.range[1], root.range[2])
    \o (IF root.type \in ParenthesisedRoots THEN <<")">> ELSE <<>>)
    \o SubSeq(s, root.range[2] + 1, Len(s))

\* C9: every diagnostic of the unused-value check of a statement carries the
\* same one suggestion, whose first edit inserts at the start of the root
\* expression; applied, it leaves the text with void put before the root
\* expression, which is parenthesised exactly when it is a sequence,
\* assignment, conditional, logical, binary, as or satisfies expression,
\* and is otherwise unchanged
C9_SuggestionEditsRoot ==
    /\ HasRoot =>
          \A i \in DOMAIN UnusedReports :
              /\ Len(UnusedReports[i].suggest) = 1
              /\ UnusedReports[i].suggest = UnusedReports[1].suggest
              /\ UnusedReports[i].suggest[1].fix[1].range
                    = <<Root.range[1], Root.range[1] - 1>>
              /\ ApplyEdits(text, UnusedReports[i].suggest[1].fix) = Discarded(text, Root)
    /\ applied.kind = "suggestion" =>
          text = Discarded(applied.before,
                           Parse(applied.before).body[FixedStatement].expression)

\* the suggestion was applied to n, ok(1); and left void (n, ok(1));
C9_Witness ==
    /\ applied.kind = "suggestion"
    /\ applied.before = <<"n", ",", "ok", "(", "1", ")", ";">>
    /\ text = <<"void", " ", "(", "n", ",", "ok", "(", "1", ")", ")", ";">>

\* the declaration of the type lies in the antithrow package
OriginatesFromAntithrow(t) ==
    /\ t.symbol # <<>>
    /\ \E i \in DOMAIN t.symbol[1].declarations :
          Includes(t.symbol[1].declarations[i], PackageDir)

\* C10: a type that is no union, not any, unknown, never or nullish, and
\* is not declared in the antithrow package classifies NONE and is no
\* result type
C10_ForeignTypeIsNone ==
    (/\ ~isUnion(tsType)
     /\ tsType.flags \cap {"Any", "Unknown", "Never", "Null", "Undefined", "Void"} = {}
     /\ ~OriginatesFromAntithrow(tsType))
        => /\ variant \in {"unset", ResultVariant.NONE}
           /\ isResult \in {"unset", "false"}

\* the members of a type, unions flattened, left to right
RECURSIVE Members(_)
Members(t) ==
    IF ~isUnion(t) THEN <<t>>
    ELSE IF t.types = <<>> THEN <<>>
    ELSE Members(Head(t.types)) \o Members(Union(Tail(t.types)))

\* the orders in which the given members can be written
Orderings(ms) ==
    LET n == Len(ms)
        bijections == {f \in [1..n -> 1..n] : \A i, j \in 1..n : f[i] = f[j] => i = j}
    IN  {[i \in 1..n |-> ms[f[i]]] : f \in bijections}

\* the types that have the given members in the given order: the member
\* itself when there is one, the flat union, and the unions that group all
\* members but the first, or all but the last, in a union of their own
Nestings(ms) ==
    {Union(ms)}
    \cup (IF Len(ms) = 1 THEN {ms[1]} ELSE {})
    \cup (IF Len(ms) >= 2
          THEN {Union(<<Head(ms), Union(Tail(ms))>>),
                Union(<<Union(SubSeq(ms, 1, Len(ms) - 1)), ms[Len(ms)]>>)}
          ELSE {})

\* the types that have the members of t, in any order and nesting
Rearrangements(t) == UNION {Nestings(o) : o \in Orderings(Members(t))}

\* C11: the answers for a type are the answers for every type that has the
\* same union members written in another order or nested in another way:
\* getResultVariant gives each of them the variant it gave the type, and
\* isResultType the answer it gave the type; the two answers for the one
\* type agree
C11_OrderIndependent ==
    /\ variant # "unset" =>
          \A u \in Rearrangements(tsType) : getResultVariant(u) = variant
    /\ isResult # "unset" =>
          \A u \in Rearrangements(tsType) : isResultType(u) <=> isResult = "true"
    /\ (variant # "unset" /\ isResult # "unset") =>
          (isResult = "true" <=> variant # ResultVariant.NONE)

\* Box | Ok has been classified by both functions: MIXED, as Ok | Box is
C11_Witness ==
    /\ tsType = Union(<<BoxT, OkT>>)
    /\ variant = ResultVariant.MIXED
    /\ isResult = "true"
    /\ Union(<<OkT, BoxT>>) \in Rearrangements(tsType)

\* the types the classifier passes over
IgnoredTypes == {AnyT, UnknownT, NeverT, NullT, UndefinedT, VoidT}

\* the type with its members of the passed-over kinds removed
WithoutIgnored(t) == Union(SelectSeq(Members(t), LAMBDA m : m \notin IgnoredTypes))

\* C12: members that are any, unknown, never, null, undefined or void do
\* not count: the variant of a type is the variant of the type with such a
\* member added on either side, and of the type with all such members
\* removed; a type with no other members is NONE; Ok | undefined is OK and
\* Err | null is ERR
C12_IgnoredMembers ==
    variant # "unset" =>
        /\ \A m \in IgnoredTypes :
              /\ getResultVariant(Union(<<tsType, m>>)) = variant
              /\ getResultVariant(Union(<<m, tsType>>)) = variant
        /\ getResultVariant(WithoutIgnored(tsType)) = variant
        /\ WithoutIgnored(tsType) = Union(<<>>) => variant = ResultVariant.NONE
        /\ tsType = Union(<<OkT, UndefinedT>>) => variant = ResultVariant.OK
        /\ tsType = Union(<<ErrT, NullT>>) => variant = ResultVariant.ERR

\* Err | null has been classified: ERR
C12_Witness ==
    /\ tsType = Union(<<ErrT, NullT>>)
    /\ variant = ResultVariant.ERR

\* the types of the receivers that are outcome types, and of those that are
\* not: a plain object, any, a user class named Ok, a number
OutcomeReceiverTypes == ExactlyOkTypes \cup ExactlyErrTypes \cup MixedTypes
PlainReceiverTypes == {BoxT, AnyT, ObjectT("Ok", <<UserFile>>), NumberT}

\* the key of the member access resolves statically to a banned name
HasBannedKey(node) ==
    /\ KeyOf(node) # <<>>
    /\ KeyOf(node)[1] \in {"unwrap", "unwrapErr", "expect", "expectErr"}

\* C13: a member access is reported by the unsafe-extraction check, once,
\* exactly when its key resolves statically to unwrap, unwrapErr, expect or
\* expectErr and the type of its receiver is an outcome type; an access of
\* another name, and an access on a receiver of a type that is NONE, has no
\* diagnostic
C13_ReportedIffBannedOnOutcome ==
    PassDone =>
        \A p \in PathsOfType("MemberExpression") :
            LET node == NodeAt(ast, p)
                receiver == TypeOfExpression(node.object)
            IN  /\ receiver \in OutcomeReceiverTypes \cup PlainReceiverTypes
                /\ Cardinality(UnwrapReportsOn(node)) =
                      IF HasBannedKey(node) /\ receiver \in OutcomeReceiverTypes
                      THEN 1 ELSE 0

\* errValue.expectErr(); has been linted and has its diagnostic
C13_Witness ==
    /\ todo = <<>>
    /\ text = <<"errValue", ".", "expectErr", "(", ")", ";">>
    /\ Len(reports) = 1
    /\ reports[1].node.type = "MemberExpression"

\* the member access at p is called, and is unwrap on a receiver that is
\* exactly OK or unwrapErr on a receiver that is exactly ERR
IsFixableCall(p) ==
    LET node == NodeAt(ast, p)
        receiver == TypeOfExpression(node.object)
    IN  /\ p \in CalleePaths
        /\ \/ KeyOf(node) = <<"unwrap">> /\ receiver \in ExactlyOkTypes
           \/ KeyOf(node) = <<"unwrapErr">> /\ receiver \in ExactlyErrTypes

\* C14: a diagnostic of a member access carries a fix only when the access
\* is a call of unwrap on an exactly-OK receiver or of unwrapErr on an
\* exactly-ERR receiver; the diagnostic of every other member access
\* (expect and expectErr, a reference that is not called, a call of the
\* method of the other variant, a mixed receiver) has the message
\* unsafeUnwrap and neither fix nor suggestion
C14_FixOnlyOnMatchingCall ==
    PassDone =>
        \A p \in PathsOfType("MemberExpression") :
            \A i \in UnwrapReportsOn(NodeAt(ast, p)) :
                /\ reports[i].fix # <<>> => IsFixableCall(p)
                /\ reports[i].messageId # "unsafeUnwrap" => IsFixableCall(p)
                /\ ~IsFixableCall(p) =>
                      /\ reports[i].messageId = "unsafeUnwrap"
                      /\ reports[i].fix = <<>>
                      /\ reports[i].suggest = <<>>

\* okValue.unwrapErr(); has been linted: the generic message, no fix
C14_Witness ==
    /\ todo = <<>>
    /\ text = <<"okValue", ".", "unwrapErr", "(", ")", ";">>
    /\ Len(reports) = 1
    /\ reports[1].messageId = "unsafeUnwrap"
    /\ reports[1].method = "unwrapErr"
    /\ reports[1].fix = <<>>

\* the field that replaces the method of a fixable diagnostic
FieldOf(report) == IF report.messageId = "unwrapOkValue" THEN "value" ELSE "error"

\* the text consists of whitespace only
IsBlank(s) == \A k \in DOMAIN s : s[k] = " "

\* C15: a fix is one edit that replaces the whole call expression by the
\* source text of the receiver, unchanged, then the whitespace that
\* followed it, if any, then .value or .error, or ?.value or ?.error when
\* the member access is optional.  Applied to a call written r.unwrap(),
\* r["unwrap"]() or with a template key, it leaves r.value; applied to
\* r?.unwrap() or r?.["unwrap"](), it leaves r?.value; likewise for
\* unwrapErr and error; the parentheses of the call are gone
C15_FixKeepsReceiver ==
    /\ PassDone =>
          \A p \in CalleePaths : \A i \in UnwrapReportsOn(NodeAt(ast, p)) :
              reports[i].fix # <<>> =>
                  LET node == NodeAt(ast, p)
                      call == NodeAt(ast, ParentPath(p))
                      receiverText == getText(text, node.object)
                      edit == reports[i].fix[1]
                      n == Len(edit.text)
                  IN  /\ Len(reports[i].fix) = 1
                      /\ edit.range = call.range
                      /\ n >= Len(receiverText) + 2
                      /\ SubSeq(edit.text, 1, Len(receiverText)) = receiverText
                      /\ IsBlank(SubSeq(edit.text, Len(receiverText) + 1, n - 2))
                      /\ SubSeq(edit.text, n - 1, n)
                            = <<IF node.optional THEN "?." ELSE ".", FieldOf(reports[i])>>
    /\ applied.kind = "fix" =>
          \A r \in Receivers : \A c \in {<<"(", ")">>, <<"?.", "(", ")">>} :
              LET m == applied.report.method
                  field == FieldOf(applied.report)
              IN  /\ applied.before \in
                        {r \o a \o c \o <<";">> :
                            a \in {<<".", m>>, <<"[", Quote(m), "]">>, <<"[", Template(m), "]">>}}
                        => text = r \o <<".", field, ";">>
                  /\ applied.before \in
                        {r \o a \o c \o <<";">> :
                            a \in {<<"?.", m>>, <<"?.", "[", Quote(m), "]">>}}
                        => text = r \o <<"?.", field, ";">>

\* the fix of maybeOk?.["unwrap"](); has been applied
C15_Witness ==
    /\ applied.kind = "fix"
    /\ applied.before = <<"maybeOk", "?.", "[", Quote("unwrap"), "]", "(", ")", ";">>
    /\ text = <<"maybeOk", "?.", "value", ";">>

\* the text of the member access ends with the access operator directly
\* followed by the name as the resolver reads it, or by the bracketed key
CanonicalSuffix(node) ==
    IF node.computed
    THEN /\ text[node.range[2]] = "]"
         /\ node.property.range[2] = node.range[2] - 1
         /\ text[node.property.range[1] - 1] = "["
         /\ node.optional => text[node.property.range[1] - 2] = "?."
    ELSE /\ text[node.range[2]] = node.property.name
         /\ text[node.range[2] - 1] = (IF node.optional THEN "?." ELSE ".")

\* C16: a call of unwrap on an exactly-OK receiver, or of unwrapErr on an
\* exactly-ERR receiver, whose text does not end with the expected suffix
\* (the name written with an escape, whitespace after the dot or inside the
\* brackets) has one diagnostic, with the message of the fixable case,
\* unwrapOkValue or unwrapErrError, and no edit; with the expected suffix it
\* has the edit
C16_NoEditWithoutSuffix ==
    PassDone =>
        \A p \in CalleePaths :
            IsFixableCall(p) =>
                LET node == NodeAt(ast, p)
                IN  /\ Cardinality(UnwrapReportsOn(node)) = 1
                    /\ \A i \in UnwrapReportsOn(node) :
                          /\ reports[i].messageId =
                                (IF KeyOf(node) = <<"unwrap">>
                                 THEN "unwrapOkValue" ELSE "unwrapErrError")
                          /\ reports[i].suggest = <<>>
                          /\ ~CanonicalSuffix(node) => reports[i].fix = <<>>
                          /\ CanonicalSuffix(node) => Len(reports[i].fix) = 1

\* okValue.unwrap(); has been linted: unwrapOkValue without an edit
C16_Witness ==
    /\ todo = <<>>
    /\ text = <<"okValue", ".", "unw\\u0072ap", "(", ")", ";">>
    /\ Len(reports) = 1
    /\ reports[1].messageId = "unwrapOkValue"
    /\ reports[1].fix = <<>>

\* C17: a statement that assigns an outcome-typed value to a variable, be it
\* a declaration or an assignment expression statement x = E; has no
\* diagnostic of the unused-value check
C17_AssignedIsUsed ==
    ast # SyntaxError =>
        /\ (/\ HasRoot
            /\ Root.type = "AssignmentExpression"
            /\ Root.left.type = "Identifier")
              => UnusedReports = <<>>
        /\ (Len(ast.body) = 1 /\ ast.body[1].type = "VariableDeclaration")
              => UnusedReports = <<>>

\* the outcome classes a type has among its members: those named Ok, Err or
\* ResultAsync and declared in the antithrow package
FoundNames(t) ==
    LET ms == Members(t)
    IN  {ms[i].symbol[1].name : i \in
            {k \in DOMAIN ms :
                /\ ms[k] \notin IgnoredTypes
                /\ OriginatesFromAntithrow(ms[k])
                /\ ms[k].symbol[1].name \in {"Ok", "Err", "ResultAsync"}}}

\* the type has a member that is neither passed over nor an outcome class
HasOtherMember(t) ==
    LET ms == Members(t)
    IN  \E k \in DOMAIN ms :
            /\ ms[k] \notin IgnoredTypes
            /\ ~(/\ OriginatesFromAntithrow(ms[k])
                 /\ ms[k].symbol[1].name \in {"Ok", "Err", "ResultAsync"})

\* the merge rule
MergeRule(t) ==
    IF FoundNames(t) = {} THEN ResultVariant.NONE
    ELSE IF HasOtherMember(t) THEN ResultVariant.MIXED
    ELSE IF "ResultAsync" \in FoundNames(t) THEN ResultVariant.MIXED
    ELSE IF FoundNames(t) = {"Ok"} THEN ResultVariant.OK
    ELSE IF FoundNames(t) = {"Err"} THEN ResultVariant.ERR
    ELSE ResultVariant.MIXED

\* C19: the variant of every type is the one the merge rule gives: NONE
\* when no member is an Ok, Err or ResultAsync declared by antithrow;
\* otherwise MIXED when another member is present or ResultAsync is found;
\* otherwise OK when only Ok is found, ERR when only Err is, and MIXED when
\* both are.  A union of two types that classify OK is OK, and of two that
\* classify ERR is ERR
C19_MergeRule ==
    variant # "unset" =>
        /\ variant = MergeRule(tsType)
        /\ \A v \in {ResultVariant.OK, ResultVariant.ERR} :
              (/\ isUnion(tsType)
               /\ Len(tsType.types) = 2
               /\ getResultVariant(tsType.types[1]) = v
               /\ getResultVariant(tsType.types[2]) = v) => variant = v

\* the nodes that forward the value of their operand: an operator other
\* than void, a non-null assertion, as, satisfies, an optional chain
IsForwardingWrapper(node) ==
    \/ node.type = "UnaryExpression" /\ node.operator # "void"
    \/ node.type \in {"TSNonNullExpression", "TSAsExpression",
                      "TSSatisfiesExpression", "ChainExpression"}

\* the operand of a forwarding wrapper
WrappedOperand(node) ==
    IF node.type = "UnaryExpression" THEN node.argument ELSE node.expression

\* the nodes whose value a statement ignores, left to right: nothing beneath
\* void, the operand's for a forwarding wrapper, the branches' of a
\* conditional, the operands' of a logical operator, the members' of a
\* sequence, and otherwise the node itself when its type is an outcome type
RECURSIVE IgnoredValues(_)
RECURSIVE IgnoredValuesOfAll(_)
IgnoredValues(node) ==
    IF IsVoid(node) THEN <<>>
    ELSE IF IsForwardingWrapper(node) THEN IgnoredValues(WrappedOperand(node))
    ELSE IF node.type = "ConditionalExpression"
         THEN IgnoredValues(node.consequent) \o IgnoredValues(node.alternate)
    ELSE IF node.type = "LogicalExpression"
         THEN IgnoredValues(node.left) \o IgnoredValues(node.right)
    ELSE IF node.type = "SequenceExpression" THEN IgnoredValuesOfAll(node.expressions)
    ELSE IF isResultType(TypeOfExpression(node)) THEN <<node>>
    ELSE <<>>

IgnoredValuesOfAll(nodes) ==
    IF nodes = <<>> THEN <<>>
    ELSE IgnoredValues(Head(nodes)) \o IgnoredValuesOfAll(Tail(nodes))

\* C20: no diagnostic of the unused-value check is located on a forwarding
\* wrapper (an operator other than void, a non-null assertion, as,
\* satisfies, an optional chain), and the diagnostics of a statement whose
\* root is such a wrapper are exactly those of the operand, on the
\* operand's leaves
C20_WrappersForward ==
    /\ ast # SyntaxError =>
          \A i \in DOMAIN UnusedReports : ~IsForwardingWrapper(UnusedReports[i].node)
    /\ (PassDone /\ HasRoot /\ IsForwardingWrapper(Root)) =>
          [i \in 1..Len(UnusedReports) |-> UnusedReports[i].node]
              = IgnoredValues(WrappedOperand(Root))

\* the position of the first Err a body delegates to, or 0
FirstErr(body) ==
    IF \E k \in DOMAIN body : Delivered(body[k]).tag = "Err"
    THEN CHOOSE k \in DOMAIN body :
            /\ Delivered(body[k]).tag = "Err"
            /\ \A j \in 1..(k - 1) : Delivered(body[j]).tag = "Ok"
    ELSE 0

\* the sum of the values a body of Ok results delivers
RECURSIVE SumOfValues(_)
SumOfValues(body) ==
    IF body = <<>> THEN 0
    ELSE Delivered(Head(body)).value + SumOfValues(Tail(body))

\* the error of an Err, or of a ResultAsync that resolves to an Err
ErrorOf(r) == IF r.tag = "ResultAsync" THEN r.promise.error ELSE r.error

\* the Result that chain has returned, or that the ResultAsync it has
\* returned has resolved to
Outcome == IF generator.async THEN returned.promise ELSE returned

\* C18: chain calls next once and, only when that delivered an Err, return
\* once after it; the generator never executes a statement after the yield*
\* that delivered the first Err and never throws; when chain is done it has
\* returned that Err with the generator closed, or, without an Err, Ok of
\* the generator's return value; the async form returns a ResultAsync,
\* which resolves to that Err or Ok
C18_ShortCircuit ==
    pc # "idle" =>
        LET e == FirstErr(generator.body)
        IN  /\ calls \in {<<>>, <<"next">>, <<"next", "return">>}
            /\ ~iter.threw
            /\ e # 0 =>
                  /\ \A i \in DOMAIN iter.steps : iter.steps[i] <= e
                  /\ Len(calls) = 2 =>
                        /\ iter.steps = [i \in 1..e |-> i]
                        /\ iter.state = "completed"
                        /\ iter.cleaned = generator.cleanup
            /\ (generator.async /\ pc \in {"first", "close"}) =>
                  returned = ResultAsync(Pending)
            /\ (~generator.async /\ pc # "done") => returned = NotReturned
            /\ pc = "done" =>
                  /\ generator.async => returned.tag = "ResultAsync"
                  /\ IF e # 0
                     THEN /\ Outcome = err(ErrorOf(generator.body[e]))
                          /\ calls = <<"next", "return">>
                     ELSE /\ Outcome = ok(SumOfValues(generator.body))
                          /\ calls = <<"next">>
                          /\ iter.state = "completed"

\* chain has returned for function* () { yield* ok(1); yield* err("e1");
\* yield* ok(2); ... }: the Err, after two statements
C18_Witness ==
    /\ pc = "done"
    /\ ~generator.async
    /\ generator.body = <<ok(1), err("e1"), ok(2)>>
    /\ returned = err("e1")
    /\ iter.steps = <<1, 2>>
    /\ calls = <<"next", "return">>

----------------------------------------------------------------------------
(* Properties of the walk of no-unused-result.                             *)

\* the path of the root expression of the statement
RootPath == <<<<"body", 1>>, <<"expression", 0>>>>

\* the fields of a pass-through node that hold its values: the operand of
\* an operator other than void, the branches of a conditional, the operands
\* of a logical operator, the members of a sequence, the expression of a
\* type assertion, a non-null assertion and an optional chain
ValueSlots(node) ==
    CASE node.type = "UnaryExpression" /\ node.operator # "void" -> {"argument"}
      [] node.type = "ConditionalExpression" -> {"consequent", "alternate"}
      [] node.type = "LogicalExpression" -> {"left", "right"}
      [] node.type = "SequenceExpression" -> {"expressions"}
      [] node.type \in {"TSAsExpression", "TSNonNullExpression", "ChainExpression"} ->
            {"expression"}
      [] OTHER -> {}

\* the positions reached from the root purely through pass-through nodes
ValuePositions ==
    {p \in AllPaths :
        /\ Len(p) >= 2
        /\ SubSeq(p, 1, 2) = RootPath
        /\ \A k \in 2..(Len(p) - 1) :
              p[k + 1][1] \in ValueSlots(NodeAt(ast, SubSeq(p, 1, k)))}

\* those of them that are neither pass-through nor void
ValueLeaves ==
    {p \in ValuePositions :
        ValueSlots(NodeAt(ast, p)) = {} /\ ~IsVoid(NodeAt(ast, p))}

\* the positions inside the arguments of a call, the body of a function or
\* the test of a conditional
OpaquePaths ==
    {p \in AllPaths :
        \E k \in 1..Len(p) :
            \/ p[k][1] \in {"arguments", "test"}
            \/ p[k][1] = "body" /\ k > 1}

\* the type at p classifies as a variant other than NONE
IsOutcomeTyped(p) ==
    getResultVariant(TypeOfExpression(NodeAt(ast, p))) # ResultVariant.NONE

\* the diagnostics of the unused-value check located on a node
UnusedReportsOn(node) ==
    {i \in DOMAIN UnusedReports : UnusedReports[i].node = node}

\* the nodes the unused-value check has reported, in the order reported
ReportedNodes == [i \in 1..Len(UnusedReports) |-> UnusedReports[i].node]

\* C21: the nodes reported for an expression statement are exactly the
\* outcome-typed leaves reached from its root purely through pass-through
\* nodes; no node inside the arguments of a call, inside a function body or
\* in the test of a conditional is reported, and log(ok(1)); has no
\* diagnostic
C21_OnlyValuePositions ==
    (PassDone /\ HasRoot) =>
        /\ {UnusedReports[i].node : i \in DOMAIN UnusedReports}
              = {NodeAt(ast, p) : p \in {q \in ValueLeaves : IsOutcomeTyped(q)}}
        /\ \A p \in OpaquePaths : UnusedReportsOn(NodeAt(ast, p)) = {}
        /\ text = <<"log", "(", "ok", "(", "1", ")", ")", ";">> => UnusedReports = <<>>

\* log(ok(1)); has been linted: its argument is outcome-typed, and nothing
\* is reported
C21_Witness ==
    /\ todo = <<>>
    /\ text = <<"log", "(", "ok", "(", "1", ")", ")", ";">>
    /\ \E p \in OpaquePaths : IsOutcomeTyped(p)
    /\ reports = <<>>

\* the operands of a logical or sequence expression at p
OperandPaths(p) ==
    IF NodeAt(ast, p).type = "SequenceExpression"
    THEN {Append(p, <<"expressions", i>>) : i \in 1..Len(NodeAt(ast, p).expressions)}
    ELSE {Append(p, <<"left", 0>>), Append(p, <<"right", 0>>)}

\* C22: every operand of a logical (&&, ||, ??) or sequence expression the
\* walk reaches is a value position of its own, and an operand that is an
\* outcome-typed leaf has its own diagnostic: ok(1) && ok(1); and
\* ok(1) || ok(2); have two, on the left and the right operand, and
\* ok(1), log(n); has one, on ok(1)
C22_EveryOperand ==
    (PassDone /\ HasRoot) =>
        /\ \A p \in ValuePositions :
              NodeAt(ast, p).type \in {"LogicalExpression", "SequenceExpression"} =>
                  \A q \in OperandPaths(p) :
                      /\ q \in ValuePositions
                      /\ (q \in ValueLeaves /\ IsOutcomeTyped(q))
                            => Cardinality(UnusedReportsOn(NodeAt(ast, q))) = 1
        /\ text \in {<<"ok", "(", "1", ")", "&&", "ok", "(", "1", ")", ";">>,
                     <<"ok", "(", "1", ")", "||", "ok", "(", "2", ")", ";">>}
              => ReportedNodes = <<Root.left, Root.right>>
        /\ text = <<"ok", "(", "1", ")", ",", "log", "(", "n", ")", ";">>
              => ReportedNodes = <<Root.expressions[1]>>

\* ok(1) || ok(2); has been linted: two diagnostics
C22_Witness ==
    /\ todo = <<>>
    /\ text = <<"ok", "(", "1", ")", "||", "ok", "(", "2", ")", ";">>
    /\ Root.type = "LogicalExpression"
    /\ Len(UnusedReports) = 2

\* C23: a leaf the walk reaches has one diagnostic when its type classifies
\* as a variant other than NONE and none when it classifies as NONE; the
\* diagnostic has the message unusedResult, no fix, and exactly one
\* suggestion, addVoid.  The statements n; ok(1).unwrap(); and log(n)
\* in a sequence have none
C23_LeafReportedIffOutcome ==
    (PassDone /\ HasRoot) =>
        /\ \A p \in ValueLeaves :
              LET node == NodeAt(ast, p)
              IN  /\ Cardinality(UnusedReportsOn(node))
                        = (IF IsOutcomeTyped(p) THEN 1 ELSE 0)
                  /\ \A i \in UnusedReportsOn(node) :
                        /\ UnusedReports[i].messageId = "unusedResult"
                        /\ UnusedReports[i].fix = <<>>
                        /\ Len(UnusedReports[i].suggest) = 1
                        /\ UnusedReports[i].suggest[1].messageId = "addVoid"
        /\ text \in {<<"n", ";">>, <<"ok", "(", "1", ")", ".", "unwrap", "(", ")", ";">>,
                     <<"maybe", ".", "unwrap", "(", ")", ";">>}
              => UnusedReports = <<>>

\* result, n; has been linted: one diagnostic, on result, with its suggestion
C23_Witness ==
    /\ todo = <<>>
    /\ text = <<"result", ",", "n", ";">>
    /\ ValueLeaves = {Append(RootPath, <<"expressions", 1>>),
                      Append(RootPath, <<"expressions", 2>>)}
    /\ Len(UnusedReports) = 1
    /\ UnusedReports[1].node = Root.expressions[1]
    /\ Len(UnusedReports[1].suggest) = 1

\* the name a key written as one lexeme denotes statically: an identifier
\* outside brackets its name, a string literal its value, a template
\* without interpolation its cooked text; every other key none
StaticName(key, computed) ==
    LET l == text[key.range[1]]
    IN  IF key.range[1] # key.range[2] THEN Null
        ELSE IF IsStringLiteral(l) THEN StringValue(l)
        ELSE IF IsTemplate(l) THEN TemplateCooked(l)
        ELSE IF IsIdentifier(l) /\ ~computed THEN IdentifierName(l)
        ELSE Null

\* C24: the resolvers answer a name exactly for an identifier key that is
\* not computed, a string literal key and a template key without
\* interpolation, and null for every other key (an identifier in brackets,
\* a number, a template with an interpolation), for member accesses and for
\* properties alike; a node whose key resolves to null has no diagnostic
C24_StaticKeysOnly ==
    ast # SyntaxError =>
        /\ \A p \in PathsOfType("MemberExpression") :
              LET node == NodeAt(ast, p)
              IN  /\ getStaticMemberName(node) = StaticName(node.property, node.computed)
                  /\ getStaticMemberName(node) = Null => UnwrapReportsOn(node) = {}
        /\ \A p \in PathsOfType("Property") :
              LET node == NodeAt(ast, p)
              IN  /\ getDestructuredPropertyName(node) = StaticName(node.key, node.computed)
                  /\ getDestructuredPropertyName(node) = Null => UnwrapReportsOn(node) = {}

\* const { 1: one } = result; has been linted: the key resolves to null and
\* nothing is reported
C24_Witness ==
    /\ todo = <<>>
    /\ text = <<"const", "{", "1", ":", "one", "}", "=", "result", ";">>
    /\ \E p \in PatternPropertyPaths : getDestructuredPropertyName(NodeAt(ast, p)) = Null
    /\ reports = <<>>

\* C25: for a banned key of an object pattern, the type that is classified
\* is the type of the value the pattern destructures (the initialiser, the
\* annotation of the parameter, the elements of the loop, and for a pattern
\* that is assigned to, the right-hand side of the assignment), and the
\* property has its one diagnostic exactly when that type classifies as a
\* variant other than NONE
C25_TypeOfDestructuredSource ==
    PassDone =>
        \A p \in PatternPropertyPaths :
            getDestructuredPropertyName(NodeAt(ast, p))
                    \in {"unwrap", "unwrapErr", "expect", "expectErr"} =>
                /\ getTypeAtLocation(ast, typeSourceNode(ast, ParentPath(p)))
                      = DestructuredType(p)
                /\ Cardinality(UnwrapReportsOn(NodeAt(ast, p)))
                      = (IF getResultVariant(DestructuredType(p)) # ResultVariant.NONE
                         THEN 1 ELSE 0)

\* ({ expectErr: fn } = result); has been linted: the pattern itself has no
\* outcome type, the right-hand side has, and the property is reported
C25_Witness ==
    /\ todo = <<>>
    /\ text = <<"(", "{", "expectErr", ":", "fn", "}", "=", "result", ")", ";">>
    /\ ~isResultType(getTypeAtLocation(ast, RootPath \o <<<<"left", 0>>>>))
    /\ \E i \in DOMAIN reports :
          /\ reports[i].ruleId = "no-unsafe-unwrap"
          /\ reports[i].node.type = "Property"
          /\ reports[i].method = "expectErr"

\* the text s with n blanks put before the node
Padded(s, node, n) ==
    SubSeq(s, 1, node.range[1] - 1) \o [i \in 1..n |-> " "]
    \o SubSeq(s, node.range[1], Len(s))

\* C28: once the suggestion has been applied, the text parses, and the root
\* of the statement it was made for is a void operator whose operand is the
\* whole root expression the statement had before
C28_SuggestionIsPrecedenceSafe ==
    applied.kind = "suggestion" =>
        /\ ast # SyntaxError
        /\ LET k == FixedStatement
               before == Parse(applied.before).body[k].expression
               shift == Len(applied.report.suggest[1].fix[1].text)
               moved == Parse(Padded(applied.before, before, shift)).body[k].expression
               root == ast.body[k].expression
           IN  /\ IsVoid(root)
               /\ root.argument = moved

\* C29: in one lint pass no node has two diagnostics of the same rule; the
\* value positions of two expression statements are disjoint; a banned
\* member access on an outcome-typed receiver has exactly one diagnostic,
\* located on the member access and not on the call or the receiver; a
\* banned key of a pattern over an outcome type has exactly one, located on
\* the property and not on its key or the pattern
C29_OneDiagnosticPerNode ==
    PassDone =>
        /\ \A i, j \in DOMAIN reports :
              (i # j /\ reports[i].ruleId = reports[j].ruleId)
                  => reports[i].node # reports[j].node
        /\ \A i, j \in DOMAIN UnusedReports :
              i # j => ~Inside(UnusedReports[i].node, UnusedReports[j].node)
        /\ \A p \in PathsOfType("MemberExpression") :
              LET node == NodeAt(ast, p)
              IN  (HasBannedKey(node) /\ isResultType(TypeOfExpression(node.object))) =>
                      /\ Cardinality(UnwrapReportsOn(node)) = 1
                      /\ UnwrapReportsOn(NodeAt(ast, ParentPath(p))) = {}
                      /\ UnwrapReportsOn(node.object) = {}
        /\ \A p \in PatternPropertyPaths :
              LET node == NodeAt(ast, p)
              IN  (/\ getDestructuredPropertyName(node)
                          \in {"unwrap", "unwrapErr", "expect", "expectErr"}
                   /\ isResultType(DestructuredType(p))) =>
                      /\ Cardinality(UnwrapReportsOn(node)) = 1
                      /\ UnwrapReportsOn(NodeAt(ast, ParentPath(p))) = {}
                      /\ \A i \in DOMAIN reports :
                            reports[i].ruleId = "no-unsafe-unwrap"
                                => reports[i].node.type # "Identifier"

\* ok(1); ok(1); has been linted: two diagnostics, one on each statement's
\* call
C29_Witness ==
    /\ todo = <<>>
    /\ text = <<"ok", "(", "1", ")", ";", "ok", "(", "1", ")", ";">>
    /\ Len(ast.body) = 2
    /\ Len(UnusedReports) = 2
    /\ UnusedReports[1].node = ast.body[1].expression
    /\ UnusedReports[2].node = ast.body[2].expression


----------------------------------------------------------------------------
(* Properties of the walk, call by call.                                   *)

\* the walk and the classifier have nothing left to do
WalkDone == todo = <<>> /\ walk.stack = <<>> /\ walk.classifying = "no"

\* C26: the findings of the unused-value check on one statement are emitted in
\* the source order of their leaves: at every moment of the walk, a finding
\* emitted earlier is on a leaf that starts earlier in the text
C26_SourceOrder ==
    \A i, j \in DOMAIN reports :
        (i < j /\ Inside(reports[i].node, NodeAt(ast, walk.statement))
               /\ Inside(reports[j].node, NodeAt(ast, walk.statement)))
            => reports[i].node.range[1] < reports[j].node.range[1]

\* both operands of a sequence, of a conditional and of a logical expression
\* have been reported
C26_Witness ==
    /\ WalkDone
    /\ Len(reports) = 2
    /\ \E p \in {p \in AllPaths : Len(p) = 2} :
          /\ NodeAt(ast, p).type \in
                {"SequenceExpression", "ConditionalExpression", "LogicalExpression"}
          /\ Inside(reports[1].node, NodeAt(ast, p))
          /\ Inside(reports[2].node, NodeAt(ast, p))
          /\ reports[1].node.range[2] < reports[2].node.range[1]

RECURSIVE SumOf(_)
SumOf(numbers) == IF numbers = <<>> THEN 0 ELSE Head(numbers) + SumOf(Tail(numbers))

\* the number of nodes of the subtree at path p
SubtreeSize(p) == Len(Traverse(ast, <<p>>))

RECURSIVE TypeSize(_)
\* the number of types in t: itself and, of a union, those in its members
TypeSize(t) ==
    IF isUnion(t) THEN 1 + SumOf([i \in DOMAIN t.types |-> TypeSize(t.types[i])])
    ELSE 1

\* the work left: the statements to enter, the nodes under the pending calls
\* of checkExpression, the classification to return from, the types under
\* the pending calls of collectResultTypes
WorkLeft(w, statements) ==
    <<Len(statements),
      SumOf([i \in DOMAIN w.stack |-> SubtreeSize(w.stack[i])]),
      IF w.classifying = "no" THEN 0 ELSE 1,
      SumOf([i \in DOMAIN w.types |-> TypeSize(w.types[i])])>>

\* a comes before b in the lexicographic order
LexLess(a, b) ==
    \E k \in DOMAIN a :
        /\ a[k] < b[k]
        /\ \A i \in 1..(k - 1) : a[i] = b[i]

\* C27: the walk visits no node twice, every call of checkExpression made
\* from a call is on a node strictly inside the node of that call, and every
\* call of collectResultTypes made from a call is on a member of its union,
\* so that each step leaves less work; the walk and the classification of
\* every type end
C27_WalkTerminates ==
    /\ [](\A i, j \in DOMAIN walk.visited : walk.visited[i] = walk.visited[j] => i = j)
    /\ [][LexLess(WorkLeft(walk', todo'), WorkLeft(walk, todo))]_vars
    /\ <>WalkDone

\* the walk of a statement with a pass-through node has ended, and so has the
\* classification of a union
C27_Witness ==
    /\ WalkDone
    /\ \/ /\ text # <<>>
          /\ Len(walk.visited) >= 3
          /\ Len(reports) >= 1
       \/ /\ text = <<>>
          /\ isUnion(tsType)
          /\ variant = ResultVariant.MIXED

\* the leaves whose classification has returned
ClassifiedLeaves ==
    {walk.visited[i] : i \in DOMAIN walk.visited} \cap
        {p \in AllPaths : /\ switchCases(NodeAt(ast, p)).leaf
                          /\ ~(walk.classifying = "leaf" /\ walk.leaf = p)}

\* C30: no state is carried from one analysis to the next.  Whatever was
\* analysed before, the collection a classification ends with is the one the
\* type alone gives from the empty collection, a leaf is reported exactly
\* when its own type is an outcome, and a call of getResultVariant returns
\* what its argument alone gives
C30_NoCarriedState ==
    /\ (walk.classifying = "leaf" /\ walk.types = <<>>) =>
           walk.collection =
               collectResultTypes(getTypeAtLocation(ast, walk.leaf), EmptyCollection)
    /\ (walk.classifying = "type" /\ walk.types = <<>>) =>
           walk.collection = collectResultTypes(tsType, EmptyCollection)
    /\ \A p \in ClassifiedLeaves :
           Cardinality(UnusedReportsOn(NodeAt(ast, p))) =
               IF isResultType(getTypeAtLocation(ast, p)) THEN 1 ELSE 0

\* a leaf that is no outcome has been classified after one that is, and was
\* not reported
C30_Witness ==
    /\ Len(walk.visited) >= 3
    /\ Len(reports) = 1
    /\ walk.classifying = "no"
    /\ \E p \in ClassifiedLeaves :
          /\ ~isResultType(getTypeAtLocation(ast, p))
          /\ reports[1].node.range[2] < NodeAt(ast, p).range[1]

====
